---- MODULE Spec2Model ----
(***************************************************************************)
(* Verification model of the todo-app client core.                         *)
(*                                                                         *)
(*  - useTodos (src/src/hooks/useTodos.ts): the ordered in-memory view of  *)
(*    one signed-in user's task records, reconciled from the bulk load,    *)
(*    the local mutations and the change-feed events of the backing store. *)
(*  - TodoList.handleDragEnd (src/unnamed/part_008): drag-and-drop         *)
(*    reordering.                                                          *)
(*  - useAppointments (src/src/hooks/useAnalytics.ts): the two-hour gap    *)
(*    check, appointment creation/update and available-slot enumeration.   *)
(*                                                                         *)
(* Requests to the store and their responses are messages in flight: every *)
(* await of the hooks is a point where other handlers may run.  Times are  *)
(* minutes; the code's milliseconds are minutes * 60000 throughout.        *)
(***************************************************************************)
EXTENDS Integers, Sequences, FiniteSets, TLC

(***************************************************************************)
(* Bounds of the model.                                                    *)
(***************************************************************************)
MaxTodos    == 3   \* addTodo calls per behaviour (rows ever created by insert)
MaxCalls    == 4   \* hook calls per behaviour (add/toggle/edit/delete/reorder/retry)
MaxFailures == 2   \* store requests answered with an error per behaviour
MaxStatus   == 1   \* subscribe-callback status changes per behaviour

\* texts typed into the add form, and texts saved by an edit
NewTexts == {"a"}
Texts == {"a", "b"}

VARIABLES
    db,              \* todos table: set of rows (one user; RLS admits all of them)
    nextId,          \* todos.id SERIAL sequence
    clock,           \* store clock: created_at of the next inserted row
    todos,           \* useTodos state `todos` (todosRef.current mirrors it)
    isLoading,       \* useTodos state `isLoading`
    error,           \* useTodos state `error` ("null" or a message tag)
    realtimeStatus,  \* useTodos state `realtimeStatus`
    requests,        \* store requests in flight (awaited supabase calls)
    responses,       \* store responses on their way back to the hook
    channel,         \* change-feed events queued for the postgres_changes handler
    calls,           \* number of hook calls issued so far
    failures,        \* number of store errors so far
    statusChanges,   \* number of subscribe-callback invocations so far
    deleted,         \* ids whose deleteTodo write removed a row from the store
    last,            \* the step just taken (history, read by the properties only)
    authUser,        \* useAuth().user: the id of the signed-in user, or "null"
    userIdRef,       \* useTodos ref `userIdRef`
    channelRef,      \* useTodos ref `channelRef`: the hook's channel, or NoChannel
    openChannels,    \* channels of the supabase client that have not been removed
    userChanges,     \* number of changes of the signed-in user so far
    userProfiles,    \* user_profiles table of the store: rows (user_id, role)
    sessionRole,     \* AuthProvider state `userRole` ("null", "client" or "admin")
    roleCalls,       \* user ids of the fetchUserRole calls awaiting the store
    appointmentsTable, \* appointments table of the store
    apptCall,        \* per session: the useAppointments call in progress
    apptHook,        \* per session: useAppointments state
    appointmentNotes, \* appointment_notes table of the store
    calendar,        \* ClientCalendar state of the client session
    listCalls,       \* fetchAppointments calls of the signed-in user awaiting the store
    trip             \* history of a drag-and-drop round trip

todoVars == <<db, nextId, clock, todos, isLoading, error, realtimeStatus,
              requests, responses, channel, calls, failures, statusChanges,
              deleted, last>>

apptVars == <<appointmentsTable, apptCall, apptHook, appointmentNotes, calendar,
              listCalls>>

userVars == <<authUser, userIdRef, channelRef, openChannels, userChanges>>

roleVars == <<userProfiles, sessionRole, roleCalls>>

vars == <<todoVars, apptVars, trip, userVars, roleVars>>

(***************************************************************************)
(* Records                                                                 *)
(***************************************************************************)
\* the users that sign in to the todo list
TodoUsers == {"u1", "u2"}

\* channelRef.current = null
NoChannel == [n |-> 0, filter |-> "null"]

\* supabase.channel(`todos-realtime-${user.id}`) with filter `user_id=eq.${user.id}`:
\* n tells apart the channels open at the same time
Channel(n, userId) == [n |-> n, filter |-> userId]

\* a store request: `user` is the user of the closure that builds it, `auth`
\* the session it is sent with (auth.uid() of the row level security)
Req(rid, op, id, text, completed, position, rt, updates, cause) ==
    [rid |-> rid, op |-> op, id |-> id, text |-> text, completed |-> completed,
     position |-> position, rt |-> rt, updates |-> updates, cause |-> cause,
     user |-> authUser, auth |-> authUser]

NoCause == [rid |-> 0, op |-> "mount", id |-> 0, completed |-> FALSE]

\* the value of `last`: the step just taken; for the steps of a reload, `cause`
\* and `id` are those of the write whose failure issued it
Step(act, req, ok) ==
    [act |-> act, op |-> req.op, ok |-> ok,
     id |-> IF req.op = "select" THEN req.cause.id ELSE req.id,
     cause |-> req.cause.op]

StatusStep(status) ==
    [act |-> "status", op |-> status, ok |-> TRUE, id |-> 0, cause |-> "mount"]

\* useAppointments is mounted in two browser sessions: a client's and an admin's
Sessions == {"client", "admin"}

\* a useAppointments call that is not in progress
IdleCall == [pc |-> "idle", id |-> 0, client_id |-> "", start_time |-> 0,
             end_time |-> 0, status |-> ""]

\* useAppointments state of a hook that is not mounted
NoHook == [appointments |-> <<>>, calendarEvents |-> <<>>, isLoading |-> FALSE,
           error |-> "null"]

\* no round trip under way
\* ClientCalendar before a date is selected; submissions, fetches and outcome
\* record what handleSubmit and fetchAvailableSlots have done so far
NoCalendar == [showAppointmentForm |-> FALSE, date |-> 0, availableTimeSlots |-> <<>>,
               pc |-> "idle", submissions |-> 0, fetches |-> 0, outcome |-> "none"]

NoTrip == [stage |-> "none", original |-> <<>>, from |-> 0, to |-> 0]


(***************************************************************************)
(* Sequence helpers (Array.prototype.map / filter / findIndex, Math.max)   *)
(***************************************************************************)
SeqIds(s) == {s[i].id : i \in DOMAIN s}

Count(s, id) == Cardinality({i \in DOMAIN s : s[i].id = id})

\* Array.prototype.findIndex, 1-based; 0 stands for the code's -1
FindIndex(s, id) ==
    IF \E i \in DOMAIN s : s[i].id = id
    THEN CHOOSE i \in DOMAIN s : s[i].id = id /\ \A j \in 1..(i-1) : s[j].id # id
    ELSE 0

MaxOf(S) == CHOOSE m \in S : \A x \in S : x <= m

\* filter(todo => todo.id !== id)
WithoutId(s, id) == SelectSeq(s, LAMBDA t : t.id # id)

\* @dnd-kit/sortable arrayMove: splice the element out of `from`, splice it in at `to`
arrayMove(s, from, to) ==
    LET rest == [i \in 1..(Len(s)-1) |-> IF i < from THEN s[i] ELSE s[i+1]]
    IN  SubSeq(rest, 1, to-1) \o <<s[from]>> \o SubSeq(rest, to, Len(rest))


(***************************************************************************)
(* The backing store (PostgREST over the todos table)                      *)
(***************************************************************************)
DbIds == {r.id : r \in db}

DbRow(id) == CHOOSE r \in db : r.id = id

\* .order('position', {ascending: true}).order('created_at', {ascending: false})
RowBefore(r, q) ==
    \/ r.position < q.position
    \/ r.position = q.position /\ r.created_at > q.created_at
    \/ r.position = q.position /\ r.created_at = q.created_at /\ r.id < q.id

RECURSIVE OrderedRows(_)
OrderedRows(S) ==
    IF S = {} THEN <<>>
    ELSE LET first == CHOOSE r \in S : \A q \in S \ {r} : RowBefore(r, q)
         IN  <<first>> \o OrderedRows(S \ {first})

\* postgres_changes payload: eventType plus the row (payload.new, or payload.old)
Event(type, row) == [eventType |-> type, row |-> row]

\* events reach the hook's handler only while its channel is joined, and only
\* those of rows that pass the channel's filter
Emit(evs) ==
    IF realtimeStatus = "SUBSCRIBED"
    THEN channel \o SelectSeq(evs, LAMBDA ev : ev.row.user_id = channelRef.filter)
    ELSE channel

\* one element of the upsert batch applied to the table:
\* INSERT ... ON CONFLICT (id) DO UPDATE SET text, completed, position
UpsertRow(u) ==
    IF u.id \in DbIds
    THEN [DbRow(u.id) EXCEPT !.user_id = u.user_id, !.text = u.text,
                             !.completed = u.completed, !.position = u.position]
    ELSE [id |-> u.id, user_id |-> u.user_id, text |-> u.text,
          completed |-> u.completed, position |-> u.position, created_at |-> clock]

\* policy "Users can only access their own todos": FOR ALL USING (auth.uid() = user_id)
Allowed(auth, r) == r.user_id = auth

\* the row that .eq('id', id).eq('user_id', user.id) selects for a write exists
Matches(req) ==
    /\ req.id \in DbIds
    /\ DbRow(req.id).user_id = req.user
    /\ Allowed(req.auth, DbRow(req.id))

\* an upsert batch the policy refuses: a row written for, or owned by, another user
UpsertDenied(req) ==
    \E i \in DOMAIN req.updates :
        \/ req.updates[i].user_id # req.auth
        \/ req.updates[i].id \in DbIds /\ ~Allowed(req.auth, DbRow(req.updates[i].id))

(***************************************************************************)
(* useTodos: fetchTodos                                                    *)
(***************************************************************************)
\* fetchTodos up to its await: setIsLoading(true) and the select request
FetchRequest(rid, cause) ==
    Req(rid, "select", 0, "", FALSE, 0, realtimeStatus, <<>>, cause)

(***************************************************************************)
(* TodoList handlers and the useTodos mutations they call, up to the       *)
(* await of the store request                                              *)
(***************************************************************************)
ListShown == error = "null" /\ ~isLoading

CanCall == calls < MaxCalls

\* `if (!user) return` at the head of every mutation
SignedIn == authUser # "null"

\* requests in flight are told apart by `rid` only when they are otherwise equal
InFlight == requests \cup {resp.req : resp \in responses}

Tagged(req) ==
    [req EXCEPT !.rid = CHOOSE n \in 0..Cardinality(InFlight) :
                           /\ [req EXCEPT !.rid = n] \notin InFlight
                           /\ \A m \in 0..(n-1) : [req EXCEPT !.rid = m] \in InFlight]

Issue(req) ==
    /\ requests' = requests \cup {Tagged(req)}
    /\ calls' = calls + 1
    /\ last' = Step("call", req, TRUE)

\* addTodo's position for the new record
maxPosition ==
    IF Len(todos) > 0
    THEN MaxOf({todos[i].position : i \in DOMAIN todos}) + 1
    ELSE 0

\* TodoList.handleAddTodo -> useTodos.addTodo
handleAddTodo(text) ==
    /\ CanCall /\ SignedIn /\ ~isLoading
    /\ (nextId - 1) + Cardinality({r \in requests : r.op = "insert"}) < MaxTodos
    /\ text # ""
    /\ Issue(Req(0, "insert", 0, text, FALSE, maxPosition,
                  realtimeStatus, <<>>, NoCause))
    /\ UNCHANGED <<db, nextId, clock, todos, isLoading, error, realtimeStatus,
                   responses, channel, failures, statusChanges, deleted>>

\* faulty variant of ToggleView: the view waits for the store (validates C19)
ToggleViewLater(s, id, completed) == s

\* the optimistic update of toggleTodo
ToggleView(s, id, completed) ==
    [i \in DOMAIN s |-> IF s[i].id = id THEN [s[i] EXCEPT !.completed = completed]
                        ELSE s[i]]

\* TodoList.handleToggleComplete -> useTodos.toggleTodo
handleToggleComplete(id) ==
    /\ CanCall /\ SignedIn /\ ListShown
    /\ id \in SeqIds(todos)
    /\ LET todo == todos[FindIndex(todos, id)]
           completed == ~todo.completed
       IN  /\ todos' = ToggleView(todos, id, completed)
           /\ Issue(Req(0, "toggle", id, "", completed, 0,
                         realtimeStatus, <<>>, NoCause))
    /\ UNCHANGED <<db, nextId, clock, isLoading, error, realtimeStatus,
                   responses, channel, failures, statusChanges, deleted>>

\* TaskCard.handleSave -> TodoList.handleEditTodo -> useTodos.editTodo
handleEditTodo(id, text) ==
    /\ CanCall /\ SignedIn /\ ListShown
    /\ id \in SeqIds(todos)
    /\ text # ""
    /\ todos' = [i \in DOMAIN todos |->
                    IF todos[i].id = id THEN [todos[i] EXCEPT !.text = text]
                    ELSE todos[i]]
    /\ Issue(Req(0, "edit", id, text, FALSE, 0, realtimeStatus, <<>>, NoCause))
    /\ UNCHANGED <<db, nextId, clock, isLoading, error, realtimeStatus,
                   responses, channel, failures, statusChanges, deleted>>

\* TodoList.handleDeleteTodo -> useTodos.deleteTodo
handleDeleteTodo(id) ==
    /\ CanCall /\ SignedIn /\ ListShown
    /\ id \in SeqIds(todos)
    /\ todos' = WithoutId(todos, id)
    /\ Issue(Req(0, "delete", id, "", FALSE, 0, realtimeStatus, <<>>, NoCause))
    /\ UNCHANGED <<db, nextId, clock, isLoading, error, realtimeStatus,
                   responses, channel, failures, statusChanges, deleted>>

\* faulty variant of ReorderUpdates: positions counted from 1 (validates C7)
ReorderUpdatesFromOne(newOrder) ==
    [i \in DOMAIN newOrder |->
        [id |-> newOrder[i].id, user_id |-> authUser, text |-> newOrder[i].text,
         completed |-> newOrder[i].completed, position |-> i]]

\* reorderTodos: the batch built from the submitted order
ReorderUpdates(newOrder) ==
    [i \in DOMAIN newOrder |->
        [id |-> newOrder[i].id, user_id |-> authUser, text |-> newOrder[i].text,
         completed |-> newOrder[i].completed, position |-> i - 1]]

\* faulty variant of DragMoves: a card dropped on itself is moved (validates C20)
DragMovesAlways(active, over) == over # 0

\* handleDragEnd goes on past `if (!over || active.id === over.id) return`;
\* over = 0 stands for a drag that ended over no card
DragMoves(active, over) == over # 0 /\ active # over

\* TodoList.handleDragEnd -> useTodos.reorderTodos
handleDragEnd(active, over) ==
    /\ CanCall /\ SignedIn /\ ListShown
    /\ active \in SeqIds(todos) /\ over \in SeqIds(todos)
    /\ DragMoves(active, over)
    /\ LET oldIndex == FindIndex(todos, active)
           newIndex == FindIndex(todos, over)
           newOrder == arrayMove(todos, oldIndex, newIndex)
       IN  /\ todos' = newOrder
           /\ Issue(Req(0, "reorder", active, "", FALSE, 0, realtimeStatus,
                         ReorderUpdates(newOrder), NoCause))
    /\ UNCHANGED <<db, nextId, clock, isLoading, error, realtimeStatus,
                   responses, channel, failures, statusChanges, deleted>>

\* TodoList.handleDragEnd, the early return: nothing is called
handleDragEndIgnored(active, over) ==
    /\ SignedIn /\ ListShown
    /\ active \in SeqIds(todos) /\ over \in SeqIds(todos) \cup {0}
    /\ ~DragMoves(active, over)
    /\ last' = [act |-> "drag", op |-> "reorder", ok |-> FALSE, id |-> active,
                cause |-> "mount"]
    /\ UNCHANGED <<db, nextId, clock, todos, isLoading, error, realtimeStatus,
                   requests, responses, channel, calls, failures, statusChanges,
                   deleted>>

\* useTodos.retryLoading (the Retry button of the error panel)
retryLoading ==
    /\ CanCall /\ error # "null"
    /\ error' = "null"
    /\ IF SignedIn
       THEN /\ isLoading' = TRUE
            /\ Issue(FetchRequest(0, [NoCause EXCEPT !.op = "retry"]))
            /\ UNCHANGED todos
       ELSE /\ isLoading' = FALSE
            /\ todos' = <<>>
            /\ calls' = calls + 1
            /\ last' = Step("call", FetchRequest(0, [NoCause EXCEPT !.op = "retry"]), FALSE)
            /\ UNCHANGED requests
    /\ UNCHANGED <<db, nextId, clock, realtimeStatus,
                   responses, channel, failures, statusChanges, deleted>>


(***************************************************************************)
(* The store answers a request                                             *)
(***************************************************************************)
Answer(req, ok, data) ==
    /\ requests' = requests \ {req}
    /\ responses' = responses \cup {[req |-> req, ok |-> ok, data |-> data]}
    /\ last' = Step("store", req, ok)

\* toggleTodo / editTodo / deleteTodo / reorderTodos after the await, no error:
\* the continuation only logs, so the call is complete once the store has
\* applied the write and no response is kept in flight
Applied(req) ==
    /\ requests' = requests \ {req}
    /\ UNCHANGED responses
    /\ last' = Step("store", req, TRUE)

\* .from('todos').insert([newTodo]).select()
StoreInsert(req) ==
    /\ req \in requests /\ req.op = "insert"
    /\ LET row == [id |-> nextId, user_id |-> req.user, text |-> req.text,
                   completed |-> FALSE, position |-> req.position,
                   created_at |-> clock]
       IN  /\ db' = db \cup {row}
           /\ channel' = Emit(<<Event("INSERT", row)>>)
           /\ Answer(req, TRUE, <<row>>)
    /\ nextId' = nextId + 1
    /\ clock' = clock + 1
    /\ UNCHANGED <<todos, isLoading, error, realtimeStatus, calls, failures,
                   statusChanges, deleted>>

\* .update({ completed }).eq('id', id).eq('user_id', user.id)
StoreToggle(req) ==
    /\ req \in requests /\ req.op = "toggle"
    /\ IF Matches(req)
       THEN LET row == [DbRow(req.id) EXCEPT !.completed = req.completed]
            IN  /\ db' = (db \ {DbRow(req.id)}) \cup {row}
                /\ channel' = Emit(<<Event("UPDATE", row)>>)
       ELSE UNCHANGED <<db, channel>>
    /\ Applied(req)
    /\ UNCHANGED <<nextId, clock, todos, isLoading, error, realtimeStatus, calls,
                   failures, statusChanges, deleted>>

\* .update({ text }).eq('id', id).eq('user_id', user.id)
StoreEdit(req) ==
    /\ req \in requests /\ req.op = "edit"
    /\ IF Matches(req)
       THEN LET row == [DbRow(req.id) EXCEPT !.text = req.text]
            IN  /\ db' = (db \ {DbRow(req.id)}) \cup {row}
                /\ channel' = Emit(<<Event("UPDATE", row)>>)
       ELSE UNCHANGED <<db, channel>>
    /\ Applied(req)
    /\ UNCHANGED <<nextId, clock, todos, isLoading, error, realtimeStatus, calls,
                   failures, statusChanges, deleted>>

\* .delete().eq('id', id).eq('user_id', user.id)
StoreDelete(req) ==
    /\ req \in requests /\ req.op = "delete"
    /\ IF Matches(req)
       THEN /\ db' = db \ {DbRow(req.id)}
            /\ channel' = Emit(<<Event("DELETE", DbRow(req.id))>>)
            /\ deleted' = deleted \cup {req.id}
       ELSE UNCHANGED <<db, channel, deleted>>
    /\ Applied(req)
    /\ UNCHANGED <<nextId, clock, todos, isLoading, error, realtimeStatus, calls,
                   failures, statusChanges>>

\* .from('todos').upsert(updates): one statement; a batch that names a row twice
\* is refused by the store (ON CONFLICT cannot affect a row a second time)
StoreUpsert(req) ==
    /\ req \in requests /\ req.op = "reorder"
    /\ IF (\E i, j \in DOMAIN req.updates :
               i # j /\ req.updates[i].id = req.updates[j].id)
          \/ UpsertDenied(req)
       THEN /\ Answer(req, FALSE, <<>>)
            /\ failures' = failures + 1
            /\ UNCHANGED <<db, channel, clock>>
       ELSE LET ups  == req.updates
                rows == {UpsertRow(ups[i]) : i \in DOMAIN ups}
                evs  == [i \in DOMAIN ups |->
                           Event(IF ups[i].id \in DbIds THEN "UPDATE" ELSE "INSERT",
                                 UpsertRow(ups[i]))]
            IN  /\ db' = {r \in db : r.id \notin {u.id : u \in rows}} \cup rows
                /\ channel' = Emit(evs)
                /\ clock' = IF \E i \in DOMAIN ups : ups[i].id \notin DbIds
                            THEN clock + 1 ELSE clock
                /\ Applied(req)
                /\ UNCHANGED failures
    /\ UNCHANGED <<nextId, todos, isLoading, error, realtimeStatus, calls,
                   statusChanges, deleted>>

\* .select('*').eq('user_id', user.id).order('position').order('created_at', desc)
StoreSelect(req) ==
    /\ req \in requests /\ req.op = "select"
    /\ Answer(req, TRUE, OrderedRows({r \in db : r.user_id = req.user
                                                 /\ Allowed(req.auth, r)}))
    /\ UNCHANGED <<db, nextId, clock, todos, isLoading, error, realtimeStatus,
                   channel, calls, failures, statusChanges, deleted>>

\* any request may come back with an error (network, permission, constraint)
StoreError(req) ==
    /\ req \in requests
    /\ failures < MaxFailures
    /\ failures' = failures + 1
    /\ Answer(req, FALSE, <<>>)
    /\ UNCHANGED <<db, nextId, clock, todos, isLoading, error, realtimeStatus,
                   channel, calls, statusChanges, deleted>>


(***************************************************************************)
(* useTodos: the continuation of each mutation after its await             *)
(***************************************************************************)
Take(resp, ok) ==
    /\ resp \in responses
    /\ responses' = responses \ {resp}
    /\ last' = Step("resolve", resp.req, ok)

\* addTodo after `await insert`: insert succeeded
addTodoDone(resp) ==
    /\ resp.req.op = "insert" /\ resp.ok
    /\ Take(resp, TRUE)
    /\ todos' = IF resp.req.rt # "SUBSCRIBED" THEN resp.data \o todos ELSE todos
    /\ UNCHANGED <<db, nextId, clock, isLoading, error, realtimeStatus, requests,
                   channel, calls, failures, statusChanges, deleted>>

\* addTodo after `await insert`: addError is set
addTodoFailed(resp) ==
    /\ resp.req.op = "insert" /\ ~resp.ok
    /\ Take(resp, FALSE)
    /\ error' = "Error adding todo"
    /\ UNCHANGED <<db, nextId, clock, todos, isLoading, realtimeStatus, requests,
                   channel, calls, failures, statusChanges, deleted>>

WriteOps == {"toggle", "edit", "delete", "reorder"}

ErrorMessage(op) ==
    CASE op = "toggle"  -> "Error toggling todo"
      [] op = "edit"    -> "Error editing todo"
      [] op = "delete"  -> "Error deleting todo"
      [] op = "reorder" -> "Error reordering todos"

\* faulty variant of ReloadRequests: only a failed delete reloads (validates C6)
ReloadAfterDeleteOnly(req) ==
    IF req.op = "delete"
    THEN {Tagged([FetchRequest(0, [rid |-> 0, op |-> req.op, id |-> req.id,
                                   completed |-> req.completed])
                     EXCEPT !.user = req.user])}
    ELSE {}

\* the reload a failed write issues: fetchTodos() up to its await; the
\* fetchTodos it calls is the one of the mutation's closure, with that user
ReloadRequests(req) ==
    {Tagged([FetchRequest(0, [rid |-> 0, op |-> req.op, id |-> req.id,
                              completed |-> req.completed])
                EXCEPT !.user = req.user])}

\* toggleTodo / editTodo / deleteTodo / reorderTodos after the await: the write
\* failed: setError(...) and fetchTodos()
writeFailed(resp) ==
    /\ resp.req.op \in WriteOps /\ ~resp.ok
    /\ Take(resp, FALSE)
    /\ error' = ErrorMessage(resp.req.op)
    /\ isLoading' = (isLoading \/ ReloadRequests(resp.req) # {})
    /\ requests' = requests \cup ReloadRequests(resp.req)
    /\ UNCHANGED <<db, nextId, clock, todos, realtimeStatus,
                   channel, calls, failures, statusChanges, deleted>>

\* faulty variant of Loaded: a reload that keeps a non-empty view (validates C5)
LoadedKeepsView(data, prev) == IF prev = <<>> THEN data ELSE prev

\* setTodos(data || []) of fetchTodos
Loaded(data, prev) == data

\* fetchTodos after the await: rows returned
fetchTodosDone(resp) ==
    /\ resp.req.op = "select" /\ resp.ok
    /\ Take(resp, TRUE)
    /\ todos' = Loaded(resp.data, todos)
    /\ error' = "null"
    /\ isLoading' = FALSE
    /\ UNCHANGED <<db, nextId, clock, realtimeStatus, requests,
                   channel, calls, failures, statusChanges, deleted>>

\* fetchTodos after the await: fetchError is set
fetchTodosFailed(resp) ==
    /\ resp.req.op = "select" /\ ~resp.ok
    /\ Take(resp, FALSE)
    /\ todos' = <<>>
    /\ error' = "Error fetching todos"
    /\ isLoading' = FALSE
    /\ UNCHANGED <<db, nextId, clock, realtimeStatus, requests,
                   channel, calls, failures, statusChanges, deleted>>

(***************************************************************************)
(* useTodos: the change-feed channel                                       *)
(***************************************************************************)
\* faulty variant of ApplyEvent: an UPDATE for an unknown id is added to the
\* view (validates C8)
ApplyEventUpsert(ev, prev) ==
    CASE ev.eventType = "INSERT" -> <<ev.row>> \o prev
      [] ev.eventType = "UPDATE" ->
            IF ev.row.id \in SeqIds(prev)
            THEN [i \in DOMAIN prev |-> IF prev[i].id = ev.row.id THEN ev.row ELSE prev[i]]
            ELSE <<ev.row>> \o prev
      [] ev.eventType = "DELETE" -> WithoutId(prev, ev.row.id)

\* the postgres_changes handler applied to the view
ApplyEvent(ev, prev) ==
    CASE ev.eventType = "INSERT" -> <<ev.row>> \o prev
      [] ev.eventType = "UPDATE" ->
            [i \in DOMAIN prev |-> IF prev[i].id = ev.row.id THEN ev.row ELSE prev[i]]
      [] ev.eventType = "DELETE" -> WithoutId(prev, ev.row.id)

\* the next queued event is handed to the postgres_changes handler
pushEvent ==
    /\ channel # <<>>
    /\ todos' = ApplyEvent(Head(channel), todos)
    /\ channel' = Tail(channel)
    /\ last' = [act |-> "push", op |-> Head(channel).eventType,
                ok |-> Head(channel).row.id \in SeqIds(todos),
                id |-> Head(channel).row.id, cause |-> "mount"]
    /\ UNCHANGED <<db, nextId, clock, isLoading, error, realtimeStatus, requests,
                   responses, calls, failures, statusChanges, deleted>>

\* subscribe callback with status SUBSCRIBED
subscribed ==
    /\ statusChanges < MaxStatus
    /\ channelRef \in openChannels
    /\ realtimeStatus # "SUBSCRIBED"
    /\ realtimeStatus' = "SUBSCRIBED"
    /\ statusChanges' = statusChanges + 1
    /\ last' = StatusStep("SUBSCRIBED")
    /\ UNCHANGED <<db, nextId, clock, todos, isLoading, error, requests,
                   responses, channel, calls, failures, deleted>>

\* subscribe callback with status CHANNEL_ERROR
channelError ==
    /\ statusChanges < MaxStatus
    /\ channelRef \in openChannels
    /\ realtimeStatus # "CHANNEL_ERROR"
    /\ realtimeStatus' = "CHANNEL_ERROR"
    /\ error' = "Error connecting to real-time updates"
    /\ statusChanges' = statusChanges + 1
    /\ last' = StatusStep("CHANNEL_ERROR")
    /\ UNCHANGED <<db, nextId, clock, todos, isLoading, requests,
                   responses, channel, calls, failures, deleted>>

(***************************************************************************)
(* Specification of the todo list: the hook right after it mounted for a   *)
(* signed-in user with no records: fetchTodos is awaiting its rows and the *)
(* channel has been created but is not yet joined.                         *)
(***************************************************************************)
Init ==
    /\ authUser = "u1"
    /\ userProfiles = {}
    /\ sessionRole = "null"
    /\ roleCalls = {}
    /\ userIdRef = "u1"
    /\ channelRef = Channel(0, "u1")
    /\ openChannels = {Channel(0, "u1")}
    /\ userChanges = 0
    /\ db = {}
    /\ nextId = 1
    /\ clock = 1
    /\ todos = <<>>
    /\ isLoading = TRUE
    /\ error = "null"
    /\ realtimeStatus = "null"
    /\ requests = {[rid |-> 0, op |-> "select", id |-> 0, text |-> "",
                     completed |-> FALSE, position |-> 0, rt |-> "null",
                     updates |-> <<>>, cause |-> NoCause, user |-> "u1",
                     auth |-> "u1"]}
    /\ responses = {}
    /\ channel = <<>>
    /\ calls = 0
    /\ failures = 0
    /\ statusChanges = 0
    /\ deleted = {}
    /\ last = StatusStep("mount")
    /\ appointmentsTable = {}
    /\ appointmentNotes = {}
    /\ calendar = NoCalendar
    /\ listCalls = {}
    /\ apptCall = [s \in Sessions |-> IdleCall]
    /\ apptHook = [s \in Sessions |-> NoHook]
    /\ trip = NoTrip

Next ==
    \/ (\E text \in NewTexts : handleAddTodo(text)) /\ UNCHANGED <<apptVars, trip, userVars, roleVars>>
    \/ (\E id \in 1..MaxTodos : handleToggleComplete(id)) /\ UNCHANGED <<apptVars, trip, userVars, roleVars>>
    \/ (\E id \in 1..MaxTodos, text \in Texts : handleEditTodo(id, text)) /\ UNCHANGED <<apptVars, trip, userVars, roleVars>>
    \/ (\E id \in 1..MaxTodos : handleDeleteTodo(id)) /\ UNCHANGED <<apptVars, trip, userVars, roleVars>>
    \/ (\E active, over \in 1..MaxTodos : handleDragEnd(active, over)) /\ UNCHANGED <<apptVars, trip, userVars, roleVars>>
    \/ (retryLoading) /\ UNCHANGED <<apptVars, trip, userVars, roleVars>>
    \/ (\E req \in requests : StoreInsert(req)) /\ UNCHANGED <<apptVars, trip, userVars, roleVars>>
    \/ (\E req \in requests : StoreToggle(req)) /\ UNCHANGED <<apptVars, trip, userVars, roleVars>>
    \/ (\E req \in requests : StoreEdit(req)) /\ UNCHANGED <<apptVars, trip, userVars, roleVars>>
    \/ (\E req \in requests : StoreDelete(req)) /\ UNCHANGED <<apptVars, trip, userVars, roleVars>>
    \/ (\E req \in requests : StoreUpsert(req)) /\ UNCHANGED <<apptVars, trip, userVars, roleVars>>
    \/ (\E req \in requests : StoreSelect(req)) /\ UNCHANGED <<apptVars, trip, userVars, roleVars>>
    \/ (\E req \in requests : StoreError(req)) /\ UNCHANGED <<apptVars, trip, userVars, roleVars>>
    \/ (\E resp \in responses : addTodoDone(resp)) /\ UNCHANGED <<apptVars, trip, userVars, roleVars>>
    \/ (\E resp \in responses : addTodoFailed(resp)) /\ UNCHANGED <<apptVars, trip, userVars, roleVars>>
    \/ (\E resp \in responses : writeFailed(resp)) /\ UNCHANGED <<apptVars, trip, userVars, roleVars>>
    \/ (\E resp \in responses : fetchTodosDone(resp)) /\ UNCHANGED <<apptVars, trip, userVars, roleVars>>
    \/ (\E resp \in responses : fetchTodosFailed(resp)) /\ UNCHANGED <<apptVars, trip, userVars, roleVars>>
    \/ (pushEvent) /\ UNCHANGED <<apptVars, trip, userVars, roleVars>>
    \/ (subscribed) /\ UNCHANGED <<apptVars, trip, userVars, roleVars>>
    \/ (channelError) /\ UNCHANGED <<apptVars, trip, userVars, roleVars>>

Spec == Init /\ [][Next]_vars


(***************************************************************************)
(* useTodos while the signed-in user changes.  The hook stays mounted: a   *)
(* change of useAuth().user re-renders it, which runs the cleanup of the   *)
(* subscription effect, the subscription effect and the fetch effect.      *)
(***************************************************************************)
MaxUserChanges == 2   \* changes of the signed-in user per behaviour
MaxUserCalls    == 2   \* hook calls per behaviour while the user changes
MaxUserFailures == 1   \* store errors per behaviour while the user changes

\* faulty variant of RemoveChannel: the cleanup forgets the channel without
\* removing it from the client (validates C12)
ForgetChannel(chs, ch) == chs

\* supabase.removeChannel(channelRef.current)
RemoveChannel(chs, ch) == chs \ {ch}

\* useAuth().user becomes u ("null": signed out)
userChanged(u) ==
    /\ userChanges < MaxUserChanges
    /\ u # authUser
    /\ authUser' = u
    /\ userChanges' = userChanges + 1
    /\ LET \* cleanup of the previous run of the subscription effect
           remaining == IF channelRef # NoChannel
                        THEN RemoveChannel(openChannels, channelRef)
                        ELSE openChannels
           created == Channel(Cardinality(remaining), u)
       IN  IF u = "null"
           THEN /\ channelRef' = NoChannel
                /\ openChannels' = remaining
                /\ UNCHANGED userIdRef
           ELSE /\ userIdRef' = u
                /\ channelRef' = created
                /\ openChannels' = remaining \cup {created}
    \* the removed channel reports CLOSED and delivers nothing more
    /\ realtimeStatus' = IF channelRef # NoChannel THEN "CLOSED" ELSE realtimeStatus
    /\ channel' = <<>>
    \* the fetch effect: fetchTodos()
    /\ IF u = "null"
       THEN /\ isLoading' = FALSE
            /\ todos' = <<>>
            /\ UNCHANGED requests
       ELSE /\ isLoading' = TRUE
            /\ requests' = requests \cup
                  {Tagged([FetchRequest(0, [NoCause EXCEPT !.op = "user"])
                              EXCEPT !.user = u, !.auth = u])}
            /\ UNCHANGED todos
    /\ last' = [act |-> "user", op |-> u, ok |-> TRUE, id |-> 0, cause |-> "mount"]
    /\ UNCHANGED <<db, nextId, clock, error, responses, calls, failures,
                   statusChanges, deleted>>

\* the rows two users stored before the hook mounted
StoredRows ==
    {[id |-> 1, user_id |-> "u1", text |-> "a", completed |-> FALSE,
      position |-> 0, created_at |-> 1],
     [id |-> 2, user_id |-> "u2", text |-> "b", completed |-> FALSE,
      position |-> 0, created_at |-> 2]}

\* the hook right after it mounted for u1: fetchTodos is awaiting its rows
InitUsers ==
    /\ authUser = "u1"
    /\ userProfiles = {}
    /\ sessionRole = "null"
    /\ roleCalls = {}
    /\ userIdRef = "u1"
    /\ channelRef = Channel(0, "u1")
    /\ openChannels = {Channel(0, "u1")}
    /\ userChanges = 0
    /\ db = StoredRows
    /\ nextId = 3
    /\ clock = 3
    /\ todos = <<>>
    /\ isLoading = TRUE
    /\ error = "null"
    /\ realtimeStatus = "null"
    /\ requests = {[rid |-> 0, op |-> "select", id |-> 0, text |-> "",
                     completed |-> FALSE, position |-> 0, rt |-> "null",
                     updates |-> <<>>, cause |-> NoCause, user |-> "u1",
                     auth |-> "u1"]}
    /\ responses = {}
    /\ channel = <<>>
    /\ calls = 0
    /\ failures = 0
    /\ statusChanges = 0
    /\ deleted = {}
    /\ last = StatusStep("mount")
    /\ appointmentsTable = {}
    /\ appointmentNotes = {}
    /\ calendar = NoCalendar
    /\ listCalls = {}
    /\ apptCall = [s \in Sessions |-> IdleCall]
    /\ apptHook = [s \in Sessions |-> NoHook]
    /\ trip = NoTrip

NextUsers ==
    \/ (\E u \in TodoUsers \cup {"null"} : userChanged(u))
          /\ UNCHANGED <<apptVars, trip, roleVars>>
    \/ (calls < MaxUserCalls /\ \E text \in NewTexts : handleAddTodo(text))
          /\ UNCHANGED <<apptVars, trip, userVars, roleVars>>
    \/ (calls < MaxUserCalls /\ \E id \in 1..MaxTodos : handleToggleComplete(id))
          /\ UNCHANGED <<apptVars, trip, userVars, roleVars>>
    \/ (\E req \in requests : StoreInsert(req)) /\ UNCHANGED <<apptVars, trip, userVars, roleVars>>
    \/ (\E req \in requests : StoreToggle(req)) /\ UNCHANGED <<apptVars, trip, userVars, roleVars>>
    \/ (\E req \in requests : StoreSelect(req)) /\ UNCHANGED <<apptVars, trip, userVars, roleVars>>
    \/ (failures < MaxUserFailures /\ \E req \in requests : StoreError(req))
          /\ UNCHANGED <<apptVars, trip, userVars, roleVars>>
    \/ (\E resp \in responses : addTodoDone(resp)) /\ UNCHANGED <<apptVars, trip, userVars, roleVars>>
    \/ (\E resp \in responses : addTodoFailed(resp)) /\ UNCHANGED <<apptVars, trip, userVars, roleVars>>
    \/ (\E resp \in responses : writeFailed(resp)) /\ UNCHANGED <<apptVars, trip, userVars, roleVars>>
    \/ (\E resp \in responses : fetchTodosDone(resp)) /\ UNCHANGED <<apptVars, trip, userVars, roleVars>>
    \/ (\E resp \in responses : fetchTodosFailed(resp)) /\ UNCHANGED <<apptVars, trip, userVars, roleVars>>
    \/ (pushEvent) /\ UNCHANGED <<apptVars, trip, userVars, roleVars>>
    \/ (subscribed) /\ UNCHANGED <<apptVars, trip, userVars, roleVars>>

SpecUsers == InitUsers /\ [][NextUsers]_vars


(***************************************************************************)
(* AuthProvider (src/src/context/AuthContext.tsx): the session's user and  *)
(* role.  The role is read from the user_profiles table when a session     *)
(* starts.                                                                 *)
(***************************************************************************)
MaxSignIns      == 3   \* auth state changes per behaviour
MaxRoleFailures == 1   \* user_profiles requests that fail per behaviour

Profile(userId, role) == [user_id |-> userId, role |-> role]

NoProfile == Profile("null", "null")

\* PostgREST .single(): the row when the query selects exactly one row; an
\* error with no data when it selects none or several, or when the request fails
single(rows, ok) ==
    IF ok /\ Cardinality(rows) = 1
    THEN [data |-> CHOOSE r \in rows : TRUE, error |-> FALSE]
    ELSE [data |-> NoProfile, error |-> TRUE]

\* the step just taken by AuthProvider
RoleStep(act, userId, ok, rows) ==
    [act |-> act, userId |-> userId, ok |-> ok, rows |-> rows]

\* the callback of supabase.auth.onAuthStateChange (and of getSession()):
\* a session of user u starts, or the session ends (u = "null")
onAuthStateChange(u) ==
    /\ userChanges < MaxSignIns
    /\ u # authUser
    /\ authUser' = u
    /\ userChanges' = userChanges + 1
    /\ IF u # "null"
       THEN /\ roleCalls' = roleCalls \cup {u}
            /\ UNCHANGED sessionRole
       ELSE /\ sessionRole' = "null"
            /\ UNCHANGED roleCalls
    /\ last' = RoleStep("onAuthStateChange", u, TRUE, 0)
    /\ UNCHANGED <<userProfiles, userIdRef, channelRef, openChannels, failures>>

\* fetchUserRole(userId) after the await of its select
fetchUserRole(userId, ok) ==
    /\ userId \in roleCalls
    /\ ~ok => failures < MaxRoleFailures
    /\ LET rows == {p \in userProfiles : p.user_id = userId}
           res  == single(rows, ok)
       IN  /\ IF res.error
              THEN UNCHANGED <<sessionRole, userProfiles>>
              ELSE IF res.data # NoProfile
              THEN /\ sessionRole' = res.data.role
                   /\ UNCHANGED userProfiles
              ELSE /\ sessionRole' = "client"
                   /\ userProfiles' = {p \in userProfiles : p.user_id # userId}
                                         \cup {Profile(userId, "client")}
           /\ last' = RoleStep("fetchUserRole", userId, ok, Cardinality(rows))
    /\ roleCalls' = roleCalls \ {userId}
    /\ failures' = IF ok THEN failures ELSE failures + 1
    /\ UNCHANGED <<authUser, userIdRef, channelRef, openChannels, userChanges>>

\* the role rows the store holds when the application starts: at most one per user
StoredProfiles ==
    {P \in SUBSET {Profile(u, r) : u \in TodoUsers, r \in {"admin", "client"}} :
        \A p, q \in P : p.user_id = q.user_id => p = q}

\* AuthProvider right after it mounted: no session yet
InitAuth ==
    /\ authUser = "null"
    /\ userProfiles \in StoredProfiles
    /\ sessionRole = "null"
    /\ roleCalls = {}
    /\ userIdRef = "null"
    /\ channelRef = NoChannel
    /\ openChannels = {}
    /\ userChanges = 0
    /\ db = {}
    /\ nextId = 1
    /\ clock = 1
    /\ todos = <<>>
    /\ isLoading = FALSE
    /\ error = "null"
    /\ realtimeStatus = "null"
    /\ requests = {}
    /\ responses = {}
    /\ channel = <<>>
    /\ calls = 0
    /\ failures = 0
    /\ statusChanges = 0
    /\ deleted = {}
    /\ last = RoleStep("mount", "null", TRUE, 0)
    /\ appointmentsTable = {}
    /\ appointmentNotes = {}
    /\ calendar = NoCalendar
    /\ listCalls = {}
    /\ apptCall = [s \in Sessions |-> IdleCall]
    /\ apptHook = [s \in Sessions |-> NoHook]
    /\ trip = NoTrip

hookState == <<db, nextId, clock, todos, isLoading, error, realtimeStatus,
               requests, responses, channel, calls, statusChanges, deleted>>

NextAuth ==
    \/ (\E u \in TodoUsers \cup {"null"} : onAuthStateChange(u))
          /\ UNCHANGED <<hookState, apptVars, trip>>
    \/ (\E u \in TodoUsers, ok \in BOOLEAN : fetchUserRole(u, ok))
          /\ UNCHANGED <<hookState, apptVars, trip>>

SpecAuth == InitAuth /\ [][NextAuth]_vars


(***************************************************************************)
(* Drag-and-drop round trip: a loaded list, one move and the move back.    *)
(* The handlers and the store step are those of the todo list above; trip  *)
(* records the order before the first move and how far the trip has come.  *)
(***************************************************************************)
LoadedRows(n, f) ==
    {[id |-> i, user_id |-> "u1", text |-> "a", completed |-> FALSE,
      position |-> f[i], created_at |-> i] : i \in 1..n}

InitRoundTrip ==
    /\ authUser = "u1"
    /\ userProfiles = {}
    /\ sessionRole = "null"
    /\ roleCalls = {}
    /\ userIdRef = "u1"
    /\ channelRef = Channel(0, "u1")
    /\ openChannels = {Channel(0, "u1")}
    /\ userChanges = 0
    /\ \E n \in 2..MaxTodos :
       \E f \in {g \in [1..n -> 0..(n-1)] : \A i, j \in 1..n : i # j => g[i] # g[j]} :
          /\ db = LoadedRows(n, f)
          /\ nextId = n + 1
          /\ clock = n + 1
          /\ todos = OrderedRows(LoadedRows(n, f))
          /\ trip = [stage |-> "start", original |-> OrderedRows(LoadedRows(n, f)),
                     from |-> 0, to |-> 0]
    /\ isLoading = FALSE
    /\ error = "null"
    /\ realtimeStatus \in {"null", "SUBSCRIBED"}
    /\ requests = {}
    /\ responses = {}
    /\ channel = <<>>
    /\ calls = 0
    /\ failures = 0
    /\ statusChanges = 0
    /\ deleted = {}
    /\ last = StatusStep("mount")
    /\ appointmentsTable = {}
    /\ appointmentNotes = {}
    /\ calendar = NoCalendar
    /\ listCalls = {}
    /\ apptCall = [s \in Sessions |-> IdleCall]
    /\ apptHook = [s \in Sessions |-> NoHook]

\* the first drag: the record at index `from` is dropped on the one at index `to`
RoundTripMove ==
    /\ trip.stage = "start"
    /\ \E active, over \in 1..MaxTodos :
          /\ handleDragEnd(active, over)
          /\ trip' = [trip EXCEPT !.stage = "moved",
                                  !.from = FindIndex(todos, active),
                                  !.to = FindIndex(todos, over)]

\* the drag back: the record now at index `to` is dropped on the one at `from`;
\* the handler does not wait for the first write, so the two calls may overlap
RoundTripBack ==
    /\ trip.stage \in {"moved", "stored"}
    /\ handleDragEnd(todos[trip.to].id, todos[trip.from].id)
    /\ trip' = [trip EXCEPT !.stage = IF trip.stage = "stored" THEN "back"
                                      ELSE "overlap"]

\* the store applies the batch of one of the two reorderTodos calls
RoundTripStore ==
    /\ \E req \in requests : StoreUpsert(req)
    /\ trip' = [trip EXCEPT !.stage = CASE trip.stage = "moved" -> "stored"
                                        [] trip.stage = "back"  -> "done"
                                        [] OTHER -> trip.stage]

NextRoundTrip ==
    \/ RoundTripMove /\ UNCHANGED <<apptVars, userVars, roleVars>>
    \/ RoundTripBack /\ UNCHANGED <<apptVars, userVars, roleVars>>
    \/ RoundTripStore /\ UNCHANGED <<apptVars, userVars, roleVars>>
    \/ pushEvent /\ UNCHANGED <<apptVars, trip, userVars, roleVars>>

SpecRoundTrip == InitRoundTrip /\ [][NextRoundTrip]_vars


(***************************************************************************)
(* Drag events on a loaded list: every way a drag can end, over another    *)
(* card, over the dragged card itself or over no card.  trip records the   *)
(* drag that ended last.                                                   *)
(***************************************************************************)
MaxDrags == 2   \* reorderTodos calls per behaviour of the drag events

\* a drag of card `active` ends over card `over` (0: over no card)
DragEvent(active, over) ==
    /\ trip' = [stage |-> "drag", original |-> todos, from |-> active, to |-> over]
    /\ \/ calls < MaxDrags /\ handleDragEnd(active, over)
       \/ handleDragEndIgnored(active, over)

NextDrag ==
    \/ (\E active \in 1..MaxTodos, over \in 0..MaxTodos : DragEvent(active, over))
          /\ UNCHANGED <<apptVars, userVars, roleVars>>
    \/ (\E req \in requests : StoreUpsert(req))
          /\ UNCHANGED <<apptVars, trip, userVars, roleVars>>
    \/ pushEvent /\ UNCHANGED <<apptVars, trip, userVars, roleVars>>

SpecDrag == InitRoundTrip /\ [][NextDrag]_vars


(***************************************************************************)
(* addTodo alone: records are only added, none is reordered, edited,       *)
(* toggled or deleted.                                                     *)
(***************************************************************************)
NextAdds ==
    \/ (\E text \in NewTexts : handleAddTodo(text))
          /\ UNCHANGED <<apptVars, trip, userVars, roleVars>>
    \/ (\E req \in requests : StoreInsert(req))
          /\ UNCHANGED <<apptVars, trip, userVars, roleVars>>
    \/ (\E req \in requests : StoreSelect(req))
          /\ UNCHANGED <<apptVars, trip, userVars, roleVars>>
    \/ (\E req \in requests : StoreError(req))
          /\ UNCHANGED <<apptVars, trip, userVars, roleVars>>
    \/ (\E resp \in responses : addTodoDone(resp))
          /\ UNCHANGED <<apptVars, trip, userVars, roleVars>>
    \/ (\E resp \in responses : addTodoFailed(resp))
          /\ UNCHANGED <<apptVars, trip, userVars, roleVars>>
    \/ (\E resp \in responses : fetchTodosDone(resp))
          /\ UNCHANGED <<apptVars, trip, userVars, roleVars>>
    \/ (\E resp \in responses : fetchTodosFailed(resp))
          /\ UNCHANGED <<apptVars, trip, userVars, roleVars>>
    \/ retryLoading /\ UNCHANGED <<apptVars, trip, userVars, roleVars>>
    \/ pushEvent /\ UNCHANGED <<apptVars, trip, userVars, roleVars>>
    \/ subscribed /\ UNCHANGED <<apptVars, trip, userVars, roleVars>>

SpecAdds == Init /\ [][NextAdds]_vars


(***************************************************************************)
(* Text typed into the add form and into a card's edit field.  A typed     *)
(* text is the sequence of its characters; the handlers above take the     *)
(* trimmed text.  trip records the text submitted last.                    *)
(***************************************************************************)
MaxInputs == 2     \* addTodo / editTodo calls per behaviour of the typed texts
MaxInputLen == 2   \* characters of a typed text

Whitespace == {" ", "\t"}

InputTexts ==
    UNION {[1..n -> Whitespace \cup {"a"}] : n \in 0..MaxInputLen}

RECURSIVE trimStart(_)
trimStart(raw) ==
    IF raw # <<>> /\ Head(raw) \in Whitespace THEN trimStart(Tail(raw)) ELSE raw

RECURSIVE trimEnd(_)
trimEnd(raw) ==
    IF raw # <<>> /\ raw[Len(raw)] \in Whitespace
    THEN trimEnd(SubSeq(raw, 1, Len(raw) - 1)) ELSE raw

\* faulty variant of trim: the text is taken as typed (validates C22)
trimNothing(raw) == raw

\* String.prototype.trim
trim(raw) == trimEnd(trimStart(raw))

\* the string of a sequence of characters
RECURSIVE Text(_)
Text(raw) == IF raw = <<>> THEN "" ELSE Head(raw) \o Text(Tail(raw))

\* the handler returned before any call of the hook
inputIgnored ==
    /\ last' = [act |-> "input", op |-> "none", ok |-> FALSE, id |-> 0,
                cause |-> "mount"]
    /\ UNCHANGED <<db, nextId, clock, todos, isLoading, error, realtimeStatus,
                   requests, responses, channel, calls, failures, statusChanges,
                   deleted>>

\* TodoList.handleAddTodo with the text of the input field
submitAddTodo(inputValue) ==
    /\ SignedIn /\ ~isLoading
    /\ trip' = [stage |-> "add", original |-> inputValue, from |-> 0, to |-> 0]
    /\ IF Text(trim(inputValue)) = ""
       THEN inputIgnored
       ELSE calls < MaxInputs /\ handleAddTodo(Text(trim(inputValue)))

\* TaskCard.handleSave with the text of the edit field of card id
handleSave(id, editText) ==
    /\ SignedIn /\ ListShown
    /\ id \in SeqIds(todos)
    /\ trip' = [stage |-> "edit", original |-> editText, from |-> id, to |-> 0]
    /\ IF Text(trim(editText)) # ""
       THEN calls < MaxInputs /\ handleEditTodo(id, Text(trim(editText)))
       ELSE inputIgnored

NextInput ==
    \/ (\E inputValue \in InputTexts : submitAddTodo(inputValue))
          /\ UNCHANGED <<apptVars, userVars, roleVars>>
    \/ (\E id \in 1..MaxTodos, editText \in InputTexts : handleSave(id, editText))
          /\ UNCHANGED <<apptVars, userVars, roleVars>>
    \/ (\E req \in requests : StoreInsert(req))
          /\ UNCHANGED <<apptVars, trip, userVars, roleVars>>
    \/ (\E req \in requests : StoreEdit(req))
          /\ UNCHANGED <<apptVars, trip, userVars, roleVars>>
    \/ (\E resp \in responses : addTodoDone(resp))
          /\ UNCHANGED <<apptVars, trip, userVars, roleVars>>
    \/ pushEvent /\ UNCHANGED <<apptVars, trip, userVars, roleVars>>

SpecInput == InitRoundTrip /\ [][NextInput]_vars


(***************************************************************************)
(* useAppointments (src/src/hooks/useAnalytics.ts) over the appointments   *)
(* table.  Times are minutes since midnight of day 0.  Every action is one *)
(* store interaction of a call together with the hook code that follows it *)
(* up to the next await.                                                   *)
(***************************************************************************)
MaxAppointments == 2   \* rows ever inserted into the appointments table
MaxApptCalls    == 3   \* useAppointments calls per behaviour
MaxApptFailures == 1   \* appointment store requests answered with an error

TwoHours == 120                 \* 2 * 60 * 60 * 1000 ms
businessHoursStart == 9
businessHoursEnd == 17
SlotMinutes == 30
MinutesPerHour == 60
MinutesPerDay == 24 * MinutesPerHour

\* intervals offered to createAppointment / updateAppointment:
\* 9:00-9:30, 12:00-12:30 and 9:00-15:00 of day 0
Intervals == {<<540, 570>>, <<720, 750>>, <<540, 900>>}

\* `date` arguments of getAvailableTimeSlots: 10:00 of day 0, midnight of day 1
Dates == {600, 1440}

\* values of `new Date()`: 8:00 and 9:30 of day 0, 9:30 of day 1
Nows == {480, 570, 2010}

Statuses == {"pending", "confirmed", "completed", "cancelled"}

\* client_id values an admin books for
ClientIds == {"u1", "u2"}

\* useAuth(): the signed-in user and the role of each session
user(s) == [id |-> IF s = "admin" THEN "u0" ELSE "u1"]

userRole(s) == IF s = "admin" THEN "admin" ELSE "client"

\* row level security of the appointments table
SelectPolicy(uid, role, r) == role = "admin" \/ r.client_id = uid

CanInsert(s, r) == userRole(s) = "admin" \/ r.client_id = user(s).id

CanUpdate(s, r) == userRole(s) = "admin" \/ r.client_id = user(s).id

Visible(s) == {r \in appointmentsTable : SelectPolicy(user(s).id, userRole(s), r)}

NoAppointment == [id |-> 0, client_id |-> "", start_time |-> 0, end_time |-> 0,
                  status |-> ""]

\* .select(...).eq('id', id).single(): the row, or null
SingleById(rows, id) ==
    IF \E r \in rows : r.id = id THEN CHOOSE r \in rows : r.id = id
    ELSE NoAppointment

\* the step just taken by useAppointments
NoGap == [checked |-> FALSE, startTime |-> 0, endTime |-> 0,
          excludeAppointmentId |-> 0, queried |-> FALSE, result |-> FALSE]

NoSlots == [day |-> 0, now |-> 0, slots |-> <<>>]

ApptStep(act, s, ok, gap, value) ==
    [act |-> act, session |-> s, ok |-> ok, gap |-> gap, value |-> value]

\* the rows selected by the query of respectsTimeGap
GapQuery(rows, startTime, endTime, excludeAppointmentId) ==
    LET twoHoursBefore == startTime - TwoHours
        twoHoursAfter  == endTime + TwoHours
    IN  {r \in rows :
            /\ (r.start_time >= twoHoursBefore \/ r.end_time <= twoHoursAfter)
            /\ r.status # "cancelled"
            /\ (excludeAppointmentId # 0 => r.id # excludeAppointmentId)}

\* respectsTimeGap: data.length === 0, and false when the query fails
respectsTimeGap(rows, startTime, endTime, excludeAppointmentId, ok) ==
    ok /\ GapQuery(rows, startTime, endTime, excludeAppointmentId) = {}

\* a gap check made: its arguments, whether its query was answered, its result
GapChecked(startTime, endTime, excludeAppointmentId, ok, result) ==
    [checked |-> TRUE, startTime |-> startTime, endTime |-> endTime,
     excludeAppointmentId |-> excludeAppointmentId, queried |-> ok,
     result |-> result]

StoreFails(ok) == ~ok => failures < MaxApptFailures

CountFailure(ok) == failures' = IF ok THEN failures ELSE failures + 1

\* fetchAppointments up to its await: setIsLoading(true), setError(null)
FetchStarted(h) == [h EXCEPT !.isLoading = TRUE, !.error = "null"]

\* createAppointment up to the insert: the gap check and its outcome
createAppointment(s, appointmentData, ok) ==
    /\ apptCall[s].pc = "idle"
    /\ calls < MaxApptCalls
    /\ Cardinality(appointmentsTable)
          + Cardinality({t \in Sessions : apptCall[t].pc = "insert"}) < MaxAppointments
    /\ StoreFails(ok)
    /\ LET startDateTime == appointmentData.start_time
           endDateTime == appointmentData.end_time
           isValidTimeGap ==
               respectsTimeGap(Visible(s), startDateTime, endDateTime, 0, ok)
           newAppointment ==
               [pc |-> "insert", id |-> 0,
                client_id |-> IF userRole(s) = "admin" THEN appointmentData.client_id
                              ELSE user(s).id,
                start_time |-> startDateTime, end_time |-> endDateTime,
                status |-> appointmentData.status]
       IN  /\ apptCall' = [apptCall EXCEPT ![s] =
                              IF isValidTimeGap THEN newAppointment ELSE IdleCall]
           /\ apptHook' = IF isValidTimeGap THEN apptHook
                          ELSE [apptHook EXCEPT ![s].error = "gap"]
           /\ last' = ApptStep("createAppointment", s, ok,
                               GapChecked(startDateTime, endDateTime, 0, ok, isValidTimeGap),
                               NoSlots)
    /\ calls' = calls + 1
    /\ CountFailure(ok)
    /\ UNCHANGED appointmentsTable

\* createAppointment: .insert(newAppointment).select().single(), then
\* fetchAppointments() up to its await
createAppointmentInsert(s, ok) ==
    /\ apptCall[s].pc = "insert"
    /\ StoreFails(ok)
    /\ LET row == [id |-> Cardinality(appointmentsTable) + 1,
                   client_id |-> apptCall[s].client_id,
                   start_time |-> apptCall[s].start_time,
                   end_time |-> apptCall[s].end_time,
                   status |-> apptCall[s].status]
           stored == ok /\ CanInsert(s, row)
       IN  /\ appointmentsTable' = IF stored THEN appointmentsTable \cup {row}
                                   ELSE appointmentsTable
           /\ apptCall' = [apptCall EXCEPT ![s] =
                              IF stored THEN [IdleCall EXCEPT !.pc = "fetch"]
                              ELSE IdleCall]
           /\ apptHook' = [apptHook EXCEPT ![s] =
                              IF stored THEN FetchStarted(@)
                              ELSE [@ EXCEPT !.error = "failed"]]
           /\ last' = ApptStep("createAppointmentInsert", s, stored, NoGap, NoSlots)
    /\ CountFailure(ok)
    /\ UNCHANGED calls

\* updateAppointment argument `updates`: a status, or a start and an end time
StatusUpdate(status) ==
    [kind |-> "status", status |-> status, start_time |-> 0, end_time |-> 0]

Updates ==
    {StatusUpdate(st) : st \in Statuses}
        \cup {[kind |-> "time", status |-> "", start_time |-> iv[1],
               end_time |-> iv[2]] : iv \in Intervals}

\* updateAppointment up to the update: the permission check of a client, the
\* read of the current appointment and the gap check; `fault` names the read
\* that fails, if any
updateAppointment(s, id, updates, fault) ==
    /\ apptCall[s].pc = "idle"
    /\ calls < MaxApptCalls
    /\ fault # "none" => failures < MaxApptFailures
    /\ fault = "permission" => userRole(s) = "client"
    /\ fault \in {"current", "gap"} => updates.kind = "time"
    /\ LET appointment ==
               IF fault = "permission" THEN NoAppointment
               ELSE SingleById(Visible(s), id)
           permitted ==
               userRole(s) = "client" =>
                   (appointment # NoAppointment
                        /\ appointment.client_id = user(s).id)
           currentAppointment ==
               IF fault = "current" THEN NoAppointment
               ELSE SingleById(Visible(s), id)
           checked ==
               permitted /\ updates.kind = "time"
                   /\ currentAppointment # NoAppointment
           isValidTimeGap ==
               respectsTimeGap(Visible(s), updates.start_time, updates.end_time,
                               id, fault # "gap")
           proceed == permitted /\ (checked => isValidTimeGap)
       IN  /\ fault = "gap" => checked
           /\ apptCall' = [apptCall EXCEPT ![s] =
                  IF proceed
                  THEN [pc |-> "update", id |-> id, client_id |-> "",
                        start_time |-> updates.start_time,
                        end_time |-> updates.end_time, status |-> updates.status]
                  ELSE IdleCall]
           /\ apptHook' = IF proceed THEN apptHook
                          ELSE [apptHook EXCEPT ![s].error =
                                   IF permitted THEN "gap" ELSE "permission"]
           /\ last' = ApptStep("updateAppointment", s, proceed,
                               IF checked
                               THEN GapChecked(updates.start_time, updates.end_time,
                                               id, fault # "gap", isValidTimeGap)
                               ELSE NoGap,
                               NoSlots)
    /\ calls' = calls + 1
    /\ failures' = IF fault = "none" THEN failures ELSE failures + 1
    /\ UNCHANGED appointmentsTable

\* the row after .update({ ...updates })
Updated(r, call) ==
    IF call.status # "" THEN [r EXCEPT !.status = call.status]
    ELSE [r EXCEPT !.start_time = call.start_time, !.end_time = call.end_time]

\* updateAppointment: .update(...).eq('id', id).select().single(), then
\* fetchAppointments() up to its await
updateAppointmentWrite(s, ok) ==
    /\ apptCall[s].pc = "update"
    /\ StoreFails(ok)
    /\ LET target == {r \in appointmentsTable :
                         r.id = apptCall[s].id /\ CanUpdate(s, r)}
           stored == ok /\ target # {}
       IN  /\ appointmentsTable' =
                  IF stored
                  THEN (appointmentsTable \ target)
                           \cup {Updated(r, apptCall[s]) : r \in target}
                  ELSE appointmentsTable
           /\ apptCall' = [apptCall EXCEPT ![s] =
                              IF stored THEN [IdleCall EXCEPT !.pc = "fetch"]
                              ELSE IdleCall]
           /\ apptHook' = [apptHook EXCEPT ![s] =
                              IF stored THEN FetchStarted(@)
                              ELSE [@ EXCEPT !.error = "failed"]]
           /\ last' = ApptStep("updateAppointmentWrite", s, stored, NoGap, NoSlots)
    /\ CountFailure(ok)
    /\ UNCHANGED calls

\* .order('start_time', { ascending: true })
StartsBefore(r, q) ==
    r.start_time < q.start_time \/ (r.start_time = q.start_time /\ r.id < q.id)

RECURSIVE OrderedByStart(_)
OrderedByStart(S) ==
    IF S = {} THEN <<>>
    ELSE LET first == CHOOSE r \in S : \A q \in S \ {r} : StartsBefore(r, q)
         IN  <<first>> \o OrderedByStart(S \ {first})

convertToCalendarEvents(appointments) ==
    [i \in DOMAIN appointments |->
        [id |-> appointments[i].id, start |-> appointments[i].start_time,
         end |-> appointments[i].end_time, status |-> appointments[i].status,
         clientId |-> appointments[i].client_id]]

\* the rows fetchAppointments asks for: `query.eq('client_id', user.id)` is added
\* only if the role the hook holds is 'client'
Listed(uid, role, visible) ==
    IF role = "client" THEN {r \in visible : r.client_id = uid} ELSE visible

\* the hook state once the query of fetchAppointments is answered
Fetched(h, ok, appointmentData) ==
    IF ok
    THEN [h EXCEPT !.appointments = appointmentData,
                   !.calendarEvents = convertToCalendarEvents(appointmentData),
                   !.isLoading = FALSE]
    ELSE [h EXCEPT !.error = "failed", !.isLoading = FALSE]

\* fetchAppointments after its await
fetchAppointments(s, ok) ==
    /\ apptCall[s].pc = "fetch"
    /\ StoreFails(ok)
    /\ LET appointmentData ==
               OrderedByStart(Listed(user(s).id, userRole(s), Visible(s)))
       IN  apptHook' = [apptHook EXCEPT ![s] = Fetched(@, ok, appointmentData)]
    /\ apptCall' = [apptCall EXCEPT ![s] = IdleCall]
    /\ last' = ApptStep("fetchAppointments", s, ok, NoGap, NoSlots)
    /\ CountFailure(ok)
    /\ UNCHANGED <<appointmentsTable, calls>>

\* the slot of `selectedDay` that starts at hour:minute
Slot(selectedDay, hour, minute) ==
    [start |-> selectedDay + hour * MinutesPerHour + minute,
     end   |-> selectedDay + hour * MinutesPerHour + minute + SlotMinutes]

SlotsPerHour == MinutesPerHour \div SlotMinutes

\* faulty variant of allSlots: a slot that starts now is kept (validates C10)
allSlotsFromNow(selectedDay, now) ==
    LET n == (businessHoursEnd - businessHoursStart) * SlotsPerHour
        every == [k \in 1..n |->
                     Slot(selectedDay, businessHoursStart + (k - 1) \div SlotsPerHour,
                          ((k - 1) % SlotsPerHour) * SlotMinutes)]
    IN  SelectSeq(every, LAMBDA slot : slot.start >= now)

\* the loops over hour and minute: the slots of the day that are in the future
allSlots(selectedDay, now) ==
    LET n == (businessHoursEnd - businessHoursStart) * SlotsPerHour
        every == [k \in 1..n |->
                     Slot(selectedDay, businessHoursStart + (k - 1) \div SlotsPerHour,
                          ((k - 1) % SlotsPerHour) * SlotMinutes)]
    IN  SelectSeq(every, LAMBDA slot : slot.start > now)

\* the appointments of the day: .gte('start_time', dayStart)
\* .lte('end_time', dayEnd).not('status', 'eq', 'cancelled')
existingAppointments(rows, selectedDay) ==
    LET dayStart == selectedDay
        dayEnd   == selectedDay + MinutesPerDay - 1
    IN  {r \in rows : /\ r.start_time >= dayStart
                      /\ r.end_time <= dayEnd
                      /\ r.status # "cancelled"}

\* the filter over allSlots
availableSlots(slots, bookedSlots) ==
    SelectSeq(slots, LAMBDA slot :
        \A booked \in bookedSlots :
            \/ slot.end <= booked.start_time - TwoHours
            \/ slot.start >= booked.end_time + TwoHours)

\* getAvailableTimeSlots: its single store query and the value it returns
getAvailableTimeSlots(s, date, now, ok) ==
    /\ calls < MaxApptCalls
    /\ StoreFails(ok)
    /\ LET selectedDay == (date \div MinutesPerDay) * MinutesPerDay
           booked == existingAppointments(Visible(s), selectedDay)
           returned == IF ~ok THEN <<>>
                       ELSE IF booked = {} THEN allSlots(selectedDay, now)
                       ELSE availableSlots(allSlots(selectedDay, now), booked)
       IN  /\ last' = ApptStep("getAvailableTimeSlots", s, ok, NoGap,
                               [day |-> selectedDay, now |-> now, slots |-> returned])
           /\ apptHook' = IF ok THEN apptHook
                          ELSE [apptHook EXCEPT ![s].error = "failed"]
    /\ calls' = calls + 1
    /\ CountFailure(ok)
    /\ UNCHANGED <<appointmentsTable, apptCall>>

\* both hooks right after they mounted: the initial fetchAppointments is awaiting
InitAppointments ==
    /\ authUser = "u1"
    /\ userProfiles = {}
    /\ sessionRole = "null"
    /\ roleCalls = {}
    /\ userIdRef = "u1"
    /\ channelRef = Channel(0, "u1")
    /\ openChannels = {Channel(0, "u1")}
    /\ userChanges = 0
    /\ appointmentsTable \in
          {{}, {[id |-> 1, client_id |-> "u1", start_time |-> 540, end_time |-> 570,
                 status |-> "cancelled"]}}
    /\ appointmentNotes = {}
    /\ calendar = NoCalendar
    /\ listCalls = {}
    /\ apptCall = [s \in Sessions |-> [IdleCall EXCEPT !.pc = "fetch"]]
    /\ apptHook = [s \in Sessions |-> [NoHook EXCEPT !.isLoading = TRUE]]
    /\ calls = 0
    /\ failures = 0
    /\ last = ApptStep("mount", "client", TRUE, NoGap, NoSlots)
    /\ db = {}
    /\ nextId = 1
    /\ clock = 1
    /\ todos = <<>>
    /\ isLoading = FALSE
    /\ error = "null"
    /\ realtimeStatus = "null"
    /\ requests = {}
    /\ responses = {}
    /\ channel = <<>>
    /\ statusChanges = 0
    /\ deleted = {}
    /\ trip = NoTrip

todoState == <<db, nextId, clock, todos, isLoading, error, realtimeStatus,
               requests, responses, channel, statusChanges, deleted>>

NextAppointments ==
    \/ (\E s \in Sessions, iv \in Intervals, c \in ClientIds, ok \in BOOLEAN :
           createAppointment(s, [client_id |-> c, start_time |-> iv[1],
                                 end_time |-> iv[2], status |-> "pending"], ok))
          /\ UNCHANGED <<todoState, trip, userVars, roleVars, appointmentNotes,
                         calendar, listCalls>>
    \/ (\E s \in Sessions, ok \in BOOLEAN : createAppointmentInsert(s, ok))
          /\ UNCHANGED <<todoState, trip, userVars, roleVars, appointmentNotes,
                         calendar, listCalls>>
    \/ (\E s \in Sessions, id \in 1..MaxAppointments, updates \in Updates,
           fault \in {"none", "permission", "current", "gap"} :
           updateAppointment(s, id, updates, fault))
          /\ UNCHANGED <<todoState, trip, userVars, roleVars, appointmentNotes,
                         calendar, listCalls>>
    \/ (\E s \in Sessions, ok \in BOOLEAN : updateAppointmentWrite(s, ok))
          /\ UNCHANGED <<todoState, trip, userVars, roleVars, appointmentNotes,
                         calendar, listCalls>>
    \/ (\E s \in Sessions, ok \in BOOLEAN : fetchAppointments(s, ok))
          /\ UNCHANGED <<todoState, trip, userVars, roleVars, appointmentNotes,
                         calendar, listCalls>>
    \/ (\E s \in Sessions, date \in Dates, now \in Nows, ok \in BOOLEAN :
           getAvailableTimeSlots(s, date, now, ok))
          /\ UNCHANGED <<todoState, trip, userVars, roleVars, appointmentNotes,
                         calendar, listCalls>>

SpecAppointments == InitAppointments /\ [][NextAppointments]_vars


(***************************************************************************)
(* ClientCalendar (src/unnamed/part_005): the booking form of the client   *)
(* session over useAppointments, next to an admin who books as well.       *)
(***************************************************************************)
\* ClientCalendar returns the spinner while isLoading and the error panel
\* while error is set; the calendar and the form are rendered otherwise
CalendarRendered ==
    ~apptHook["client"].isLoading /\ apptHook["client"].error = "null"

\* the form with its submit button: {showAppointmentForm && ...} and
\* availableTimeSlots.length > 0
FormRendered ==
    /\ CalendarRendered
    /\ calendar.showAppointmentForm
    /\ calendar.availableTimeSlots # <<>>

\* fetchAvailableSlots: setAvailableTimeSlots(slots) with the slots that
\* getAvailableTimeSlots returned
fetchAvailableSlots(c, slots) ==
    [c EXCEPT !.availableTimeSlots = slots, !.fetches = @ + 1]

\* handleSelectSlot and the effect on selectedDate
handleSelectSlot(start, now, ok) ==
    /\ CalendarRendered
    /\ calendar.pc = "idle"
    /\ ~(start < now)
    /\ getAvailableTimeSlots("client", start, now, ok)
    /\ calendar' = fetchAvailableSlots([calendar EXCEPT !.showAppointmentForm = TRUE,
                                                        !.date = start],
                                       last'.value.slots)

\* handleSubmit up to its first await: the slot is looked up in
\* availableTimeSlots, then fetchAvailableSlots or createAppointment is called
handleSubmit(iv, now, ok) ==
    /\ FormRendered
    /\ calendar.pc = "idle"
    /\ LET selectedDay == (calendar.date \div MinutesPerDay) * MinutesPerDay
           startDateTime == selectedDay + iv[1]
           endDateTime == selectedDay + iv[2]
           isSlotAvailable ==
               \E i \in DOMAIN calendar.availableTimeSlots :
                   /\ calendar.availableTimeSlots[i].start = startDateTime
                   /\ calendar.availableTimeSlots[i].end = endDateTime
       IN  IF ~isSlotAvailable
           THEN /\ getAvailableTimeSlots("client", calendar.date, now, ok)
                /\ calendar' = fetchAvailableSlots(
                                   [calendar EXCEPT !.submissions = @ + 1,
                                                    !.outcome = "unavailable"],
                                   last'.value.slots)
           ELSE /\ createAppointment("client",
                                     [client_id |-> user("client").id,
                                      start_time |-> startDateTime,
                                      end_time |-> endDateTime,
                                      status |-> "pending"], ok)
                /\ calendar' = [calendar EXCEPT
                                   !.submissions = @ + 1,
                                   !.pc = IF apptCall'["client"].pc = "insert"
                                          THEN "create" ELSE "idle",
                                   !.outcome = IF apptCall'["client"].pc = "insert"
                                               THEN "pending"
                                               ELSE IF ok THEN "gap" ELSE "failed"]

\* createAppointment called by handleSubmit: the insert is answered
handleSubmitInsert(ok) ==
    /\ calendar.pc = "create"
    /\ createAppointmentInsert("client", ok)
    /\ calendar' = IF apptCall'["client"].pc = "fetch" THEN calendar
                   ELSE [calendar EXCEPT !.pc = "idle", !.outcome = "failed"]

\* fetchAppointments of the client session is answered; when it is the one
\* awaited by createAppointment, handleSubmit goes on with `if (result)`
clientFetched(ok) ==
    /\ fetchAppointments("client", ok)
    /\ calendar' = IF calendar.pc = "create"
                   THEN [calendar EXCEPT !.pc = "idle",
                                         !.outcome = "created",
                                         !.showAppointmentForm = FALSE,
                                         !.availableTimeSlots = <<>>]
                   ELSE calendar

NextBooking ==
    \/ (\E start \in Dates, now \in Nows, ok \in BOOLEAN :
           handleSelectSlot(start, now, ok))
          /\ UNCHANGED <<todoState, trip, userVars, roleVars, appointmentNotes,
                         listCalls>>
    \/ (\E iv \in Intervals, now \in Nows, ok \in BOOLEAN : handleSubmit(iv, now, ok))
          /\ UNCHANGED <<todoState, trip, userVars, roleVars, appointmentNotes,
                         listCalls>>
    \/ (\E ok \in BOOLEAN : handleSubmitInsert(ok))
          /\ UNCHANGED <<todoState, trip, userVars, roleVars, appointmentNotes,
                         listCalls>>
    \/ (\E ok \in BOOLEAN : clientFetched(ok))
          /\ UNCHANGED <<todoState, trip, userVars, roleVars, appointmentNotes,
                         listCalls>>
    \/ (\E iv \in Intervals, c \in ClientIds, ok \in BOOLEAN :
           createAppointment("admin", [client_id |-> c, start_time |-> iv[1],
                                       end_time |-> iv[2], status |-> "pending"], ok))
          /\ UNCHANGED <<todoState, trip, userVars, roleVars, appointmentNotes,
                         calendar, listCalls>>
    \/ (\E ok \in BOOLEAN : createAppointmentInsert("admin", ok))
          /\ UNCHANGED <<todoState, trip, userVars, roleVars, appointmentNotes,
                         calendar, listCalls>>
    \/ (\E ok \in BOOLEAN : fetchAppointments("admin", ok))
          /\ UNCHANGED <<todoState, trip, userVars, roleVars, appointmentNotes,
                         calendar, listCalls>>

SpecBooking == InitAppointments /\ [][NextBooking]_vars


(***************************************************************************)
(* useAppointments: who may change, remove or annotate an appointment.     *)
(* deleteAppointment and addAppointmentNote next to updateAppointment,     *)
(* over a store that already holds appointments of two clients.            *)
(***************************************************************************)
\* policies "Clients can delete their own appointments" and "Admins can delete
\* all appointments"
CanDelete(s, r) ==
    \/ userRole(s) = "admin"
    \/ r.client_id = user(s).id /\ r.status = "pending"

\* faulty variant of CanInsertNote: the owner of the appointment may add notes
\* as well (validates C15)
CanInsertNoteOwner(s, note) ==
    \/ userRole(s) = "admin"
    \/ \E r \in appointmentsTable :
          r.id = note.appointment_id /\ r.client_id = user(s).id

\* policy "Only admins can create appointment notes"
CanInsertNote(s, note) == userRole(s) = "admin"

\* the client's permission check shared by updateAppointment, deleteAppointment
\* and addAppointmentNote: the appointment read is the caller's own
OwnAppointment(s, id, readOk) ==
    LET appointment == IF readOk THEN SingleById(Visible(s), id) ELSE NoAppointment
    IN  userRole(s) = "client" =>
            (appointment # NoAppointment /\ appointment.client_id = user(s).id)

\* deleteAppointment up to the delete: the permission check of a client
deleteAppointment(s, id, readOk) ==
    /\ apptCall[s].pc = "idle"
    /\ calls < MaxApptCalls
    /\ ~readOk => (userRole(s) = "client" /\ failures < MaxApptFailures)
    /\ LET permitted == OwnAppointment(s, id, readOk)
       IN  /\ apptCall' = [apptCall EXCEPT ![s] =
                  IF permitted THEN [IdleCall EXCEPT !.pc = "delete", !.id = id]
                  ELSE IdleCall]
           /\ apptHook' = IF permitted THEN apptHook
                          ELSE [apptHook EXCEPT ![s].error = "permission"]
           /\ last' = ApptStep("deleteAppointment", s, permitted, NoGap, NoSlots)
    /\ calls' = calls + 1
    /\ CountFailure(readOk)
    /\ UNCHANGED <<appointmentsTable, appointmentNotes>>

\* deleteAppointment: .delete().eq('id', id), then fetchAppointments() up to
\* its await; rows the policies hide from the caller are left alone, and the
\* notes of a deleted appointment go with it (ON DELETE CASCADE)
deleteAppointmentWrite(s, ok) ==
    /\ apptCall[s].pc = "delete"
    /\ StoreFails(ok)
    /\ LET target == IF ok THEN {r \in appointmentsTable :
                                    r.id = apptCall[s].id /\ CanDelete(s, r)}
                     ELSE {}
       IN  /\ appointmentsTable' = appointmentsTable \ target
           /\ appointmentNotes' =
                  {n \in appointmentNotes : n.appointment_id \notin {r.id : r \in target}}
           /\ apptCall' = [apptCall EXCEPT ![s] =
                              IF ok THEN [IdleCall EXCEPT !.pc = "fetch"] ELSE IdleCall]
           /\ apptHook' = [apptHook EXCEPT ![s] =
                              IF ok THEN FetchStarted(@)
                              ELSE [@ EXCEPT !.error = "failed"]]
           /\ last' = ApptStep("deleteAppointmentWrite", s, target # {}, NoGap, NoSlots)
    /\ CountFailure(ok)
    /\ UNCHANGED calls

\* addAppointmentNote up to the insert: the permission check of a client
addAppointmentNote(s, appointmentId, content, readOk) ==
    /\ apptCall[s].pc = "idle"
    /\ calls < MaxApptCalls
    /\ ~readOk => (userRole(s) = "client" /\ failures < MaxApptFailures)
    /\ LET permitted == OwnAppointment(s, appointmentId, readOk)
       IN  /\ apptCall' = [apptCall EXCEPT ![s] =
                  IF permitted
                  THEN [IdleCall EXCEPT !.pc = "note", !.id = appointmentId,
                                        !.status = content]
                  ELSE IdleCall]
           /\ apptHook' = IF permitted THEN apptHook
                          ELSE [apptHook EXCEPT ![s].error = "permission"]
           /\ last' = ApptStep("addAppointmentNote", s, permitted, NoGap, NoSlots)
    /\ calls' = calls + 1
    /\ CountFailure(readOk)
    /\ UNCHANGED <<appointmentsTable, appointmentNotes>>

\* addAppointmentNote: .from('appointment_notes').insert(newNote).select().single()
addAppointmentNoteInsert(s, ok) ==
    /\ apptCall[s].pc = "note"
    /\ StoreFails(ok)
    /\ LET newNote == [appointment_id |-> apptCall[s].id,
                       content |-> apptCall[s].status,
                       created_by |-> user(s).id]
           stored == /\ ok
                     /\ CanInsertNote(s, newNote)
                     /\ \E r \in appointmentsTable : r.id = newNote.appointment_id
       IN  /\ appointmentNotes' = IF stored THEN appointmentNotes \cup {newNote}
                                   ELSE appointmentNotes
           /\ apptHook' = IF stored THEN apptHook
                          ELSE [apptHook EXCEPT ![s].error = "failed"]
           /\ last' = ApptStep("addAppointmentNoteInsert", s, stored, NoGap, NoSlots)
    /\ apptCall' = [apptCall EXCEPT ![s] = IdleCall]
    /\ CountFailure(ok)
    /\ UNCHANGED <<appointmentsTable, calls>>

\* the appointments two clients hold when the sessions open
BookedBefore(st1, st2) ==
    {[id |-> 1, client_id |-> "u1", start_time |-> 540, end_time |-> 570,
      status |-> st1],
     [id |-> 2, client_id |-> "u2", start_time |-> 900, end_time |-> 930,
      status |-> st2]}

\* both hooks right after they mounted over a store with two appointments
InitAccess ==
    /\ authUser = "u1"
    /\ userProfiles = {}
    /\ sessionRole = "null"
    /\ roleCalls = {}
    /\ userIdRef = "u1"
    /\ channelRef = Channel(0, "u1")
    /\ openChannels = {Channel(0, "u1")}
    /\ userChanges = 0
    /\ \E st1 \in Statuses, st2 \in {"pending", "confirmed"} :
          appointmentsTable = BookedBefore(st1, st2)
    /\ appointmentNotes = {}
    /\ calendar = NoCalendar
    /\ listCalls = {}
    /\ apptCall = [s \in Sessions |-> [IdleCall EXCEPT !.pc = "fetch"]]
    /\ apptHook = [s \in Sessions |-> [NoHook EXCEPT !.isLoading = TRUE]]
    /\ calls = 0
    /\ failures = 0
    /\ last = ApptStep("mount", "client", TRUE, NoGap, NoSlots)
    /\ db = {}
    /\ nextId = 1
    /\ clock = 1
    /\ todos = <<>>
    /\ isLoading = FALSE
    /\ error = "null"
    /\ realtimeStatus = "null"
    /\ requests = {}
    /\ responses = {}
    /\ channel = <<>>
    /\ statusChanges = 0
    /\ deleted = {}
    /\ trip = NoTrip

NextAccess ==
    \/ (\E s \in Sessions, id \in 1..MaxAppointments, st \in Statuses,
           fault \in {"none", "permission"} :
           updateAppointment(s, id, StatusUpdate(st), fault))
          /\ UNCHANGED <<todoState, trip, userVars, roleVars, appointmentNotes,
                         calendar, listCalls>>
    \/ (\E s \in Sessions, ok \in BOOLEAN : updateAppointmentWrite(s, ok))
          /\ UNCHANGED <<todoState, trip, userVars, roleVars, appointmentNotes,
                         calendar, listCalls>>
    \/ (\E s \in Sessions, id \in 1..MaxAppointments, readOk \in BOOLEAN :
           deleteAppointment(s, id, readOk))
          /\ UNCHANGED <<todoState, trip, userVars, roleVars, calendar, listCalls>>
    \/ (\E s \in Sessions, ok \in BOOLEAN : deleteAppointmentWrite(s, ok))
          /\ UNCHANGED <<todoState, trip, userVars, roleVars, calendar, listCalls>>
    \/ (\E s \in Sessions, id \in 1..MaxAppointments, readOk \in BOOLEAN :
           addAppointmentNote(s, id, "note", readOk))
          /\ UNCHANGED <<todoState, trip, userVars, roleVars, calendar, listCalls>>
    \/ (\E s \in Sessions, ok \in BOOLEAN : addAppointmentNoteInsert(s, ok))
          /\ UNCHANGED <<todoState, trip, userVars, roleVars, calendar, listCalls>>
    \/ (\E s \in Sessions, ok \in BOOLEAN : fetchAppointments(s, ok))
          /\ UNCHANGED <<todoState, trip, userVars, roleVars, appointmentNotes,
                         calendar, listCalls>>

SpecAccess == InitAccess /\ [][NextAccess]_vars


(***************************************************************************)
(* useAppointments: whose appointments the list holds.  One mounted hook   *)
(* under AuthProvider while the signed-in user and the role change; the    *)
(* store holds appointments of two clients and is not written.             *)
(***************************************************************************)
\* effect "Initial fetch": runs when `user` or fetchAppointments (deps
\* [user, userRole]) changed
initialFetch(u, role) ==
    IF u # "null"
    THEN /\ listCalls' = listCalls \cup {[user |-> u, role |-> role]}
         /\ apptHook' = [apptHook EXCEPT !["client"] = FetchStarted(@)]
    ELSE /\ apptHook' = [apptHook EXCEPT !["client"] =
                            [@ EXCEPT !.appointments = <<>>,
                                      !.calendarEvents = <<>>]]
         /\ UNCHANGED listCalls

\* the auth listener reports another user: the hook renders with the new user
listUserChanged(u) ==
    /\ onAuthStateChange(u)
    /\ initialFetch(u, sessionRole')
    /\ UNCHANGED <<appointmentsTable, apptCall, appointmentNotes, calendar>>

\* fetchUserRole is answered: a changed role gives a new fetchAppointments
roleFetched(userId, ok) ==
    /\ fetchUserRole(userId, ok)
    /\ IF sessionRole' # sessionRole
       THEN initialFetch(authUser, sessionRole')
       ELSE UNCHANGED <<apptHook, listCalls>>
    /\ UNCHANGED <<appointmentsTable, apptCall, appointmentNotes, calendar>>

\* fetchAppointments after its await, for the `user` and the `userRole` its
\* closure captured; in user_roles both users are clients
listFetched(call, ok) ==
    /\ call \in listCalls
    /\ StoreFails(ok)
    /\ LET visible == {r \in appointmentsTable :
                          SelectPolicy(call.user, "client", r)}
           appointmentData ==
               OrderedByStart(Listed(call.user, call.role, visible))
       IN  apptHook' = [apptHook EXCEPT !["client"] =
                           Fetched(@, ok, appointmentData)]
    /\ listCalls' = listCalls \ {call}
    /\ last' = ApptStep("fetchAppointments", "client", ok, NoGap, NoSlots)
    /\ CountFailure(ok)
    /\ UNCHANGED <<appointmentsTable, apptCall, appointmentNotes, calendar,
                   userVars, roleVars>>

\* AuthProvider and the hook right after they mounted: no session yet, two
\* clients hold an appointment each
InitList ==
    /\ authUser = "null"
    /\ userProfiles \in StoredProfiles
    /\ sessionRole = "null"
    /\ roleCalls = {}
    /\ userIdRef = "null"
    /\ channelRef = NoChannel
    /\ openChannels = {}
    /\ userChanges = 0
    /\ db = {}
    /\ nextId = 1
    /\ clock = 1
    /\ todos = <<>>
    /\ isLoading = FALSE
    /\ error = "null"
    /\ realtimeStatus = "null"
    /\ requests = {}
    /\ responses = {}
    /\ channel = <<>>
    /\ calls = 0
    /\ failures = 0
    /\ statusChanges = 0
    /\ deleted = {}
    /\ last = RoleStep("mount", "null", TRUE, 0)
    /\ \E st1 \in Statuses, st2 \in {"pending", "confirmed"} :
          appointmentsTable = BookedBefore(st1, st2)
    /\ appointmentNotes = {}
    /\ calendar = NoCalendar
    /\ listCalls = {}
    /\ apptCall = [s \in Sessions |-> IdleCall]
    /\ apptHook = [s \in Sessions |-> NoHook]
    /\ trip = NoTrip

NextList ==
    \/ (\E u \in TodoUsers \cup {"null"} : listUserChanged(u))
          /\ UNCHANGED <<hookState, trip>>
    \/ (\E u \in TodoUsers, ok \in BOOLEAN : roleFetched(u, ok))
          /\ UNCHANGED <<hookState, trip>>
    \/ (\E call \in listCalls, ok \in BOOLEAN : listFetched(call, ok))
          /\ UNCHANGED <<hookState, trip>>

SpecList == InitList /\ [][NextList]_vars


(***************************************************************************)
(* TodoList.exportToExcel (src/unnamed/part_008): the view serialised to a *)
(* comma-separated file.  A file's content is the sequence of its pieces:  *)
(* a piece is a comma, a quote, a line break or a run of other characters. *)
(***************************************************************************)
MaxExports == 2   \* exportToExcel calls per behaviour
MaxExportRows == 2 \* records of the exported view

\* the pieces each text of an exported record consists of
Pieces(text) ==
    CASE text = "a"            -> <<"a">>
      [] text = "a,b"          -> <<"a", ",", "b">>
      [] text = "say \"hi\""   -> <<"say ", "\"", "hi", "\"">>
      [] text = "l\nm"         -> <<"l", "\n", "m">>
      [] OTHER                 -> <<text>>

\* locales of the browser separate date and time by ", " (en-US, de-DE, ...)
\* or by a blank (sv-SE, ...)
\* new Date(todo.created_at || Date.now()).toLocaleString()
toLocaleString(created_at, now, locale) ==
    LET t == IF created_at # 0 THEN created_at ELSE now
    IN  IF locale = "en-US" THEN <<"date", ToString(t), ",", " time", ToString(t)>>
        ELSE <<"date", ToString(t), " time", ToString(t)>>

\* a cell of the sheet that holds a string, given by its pieces
StringCell(pieces) == [isString |-> TRUE, pieces |-> pieces]

headers == <<StringCell(<<"ID">>), StringCell(<<"Task">>), StringCell(<<"Status">>),
             StringCell(<<"Created At">>)>>

\* todos.map(todo => [todo.id, todo.text, status label, created at])
ExportRow(todo, now, locale) ==
    <<[isString |-> FALSE, pieces |-> <<ToString(todo.id)>>], StringCell(Pieces(todo.text)),
      StringCell(<<IF todo.completed THEN "Completed" ELSE "Pending">>),
      StringCell(toLocaleString(todo.created_at, now, locale))>>

\* cell.replace(/"/g, '""')
RECURSIVE DoubleQuotes(_)
DoubleQuotes(pieces) ==
    IF pieces = <<>> THEN <<>>
    ELSE (IF Head(pieces) = "\"" THEN <<"\"", "\"">> ELSE <<Head(pieces)>>)
             \o DoubleQuotes(Tail(pieces))

\* a string cell that holds a comma, a line break or a quote is wrapped in quotes
EscapeCell(cell) ==
    IF cell.isString /\ \E i \in DOMAIN cell.pieces : cell.pieces[i] \in {",", "\n", "\""}
    THEN <<"\"">> \o DoubleQuotes(cell.pieces) \o <<"\"">>
    ELSE cell.pieces

\* Array.prototype.join over sequences of pieces
RECURSIVE Join(_, _)
Join(parts, separator) ==
    IF parts = <<>> THEN <<>>
    ELSE IF Len(parts) = 1 THEN parts[1]
    ELSE parts[1] \o <<separator>> \o Join(Tail(parts), separator)

\* excelData.map(row => row.map(escape).join(',')).join('\n')
csvContent(excelData) ==
    Join([r \in DOMAIN excelData |->
             Join([c \in DOMAIN excelData[r] |-> EscapeCell(excelData[r][c])], ",")],
         "\n")

\* faulty variant of Download: an empty view is exported as well (validates C11)
DownloadAlways(view, now, locale) ==
    [made |-> TRUE,
     content |-> csvContent(<<headers>> \o
                               [i \in DOMAIN view |-> ExportRow(view[i], now, locale)])]

\* the file exportToExcel offers for download, if any
Download(view, now, locale) ==
    IF Len(view) = 0 THEN [made |-> FALSE, content |-> <<>>]
    ELSE [made |-> TRUE,
          content |-> csvContent(<<headers>> \o
                                    [i \in DOMAIN view |-> ExportRow(view[i], now, locale)])]

\* TodoList.exportToExcel
exportToExcel(now, locale) ==
    /\ calls < MaxExports
    /\ calls' = calls + 1
    /\ last' = [act |-> "exportToExcel", view |-> todos, locale |-> locale,
                download |-> Download(todos, now, locale)]
    /\ UNCHANGED <<db, nextId, clock, todos, isLoading, error, realtimeStatus,
                   requests, responses, channel, failures, statusChanges, deleted>>

\* the rows a view of the export can hold
ExportRows ==
    [id : 1..MaxExportRows, user_id : {"u1"},
     text : {"a", "a,b", "say \"hi\"", "l\nm"}, completed : BOOLEAN,
     position : {0}, created_at : {0, 1}]

\* a loaded list of at most MaxExportRows records, nothing in flight
InitExport ==
    /\ authUser = "u1"
    /\ userProfiles = {}
    /\ sessionRole = "null"
    /\ roleCalls = {}
    /\ userIdRef = "u1"
    /\ channelRef = Channel(0, "u1")
    /\ openChannels = {Channel(0, "u1")}
    /\ userChanges = 0
    /\ \E n \in 0..MaxExportRows : \E view \in [1..n -> ExportRows] :
          /\ \A i, j \in 1..n : i # j => view[i].id # view[j].id
          /\ todos = [i \in 1..n |-> [view[i] EXCEPT !.position = i - 1]]
          /\ db = {[view[i] EXCEPT !.position = i - 1] : i \in 1..n}
    /\ nextId = MaxExportRows + 1
    /\ clock = 2
    /\ isLoading = FALSE
    /\ error = "null"
    /\ realtimeStatus = "SUBSCRIBED"
    /\ requests = {}
    /\ responses = {}
    /\ channel = <<>>
    /\ calls = 0
    /\ failures = 0
    /\ statusChanges = 0
    /\ deleted = {}
    /\ last = StatusStep("mount")
    /\ appointmentsTable = {}
    /\ appointmentNotes = {}
    /\ calendar = NoCalendar
    /\ listCalls = {}
    /\ apptCall = [s \in Sessions |-> IdleCall]
    /\ apptHook = [s \in Sessions |-> NoHook]
    /\ trip = NoTrip

NextExport ==
    (\E now \in {2}, locale \in {"en-US", "sv-SE"} : exportToExcel(now, locale))
        /\ UNCHANGED <<apptVars, trip, userVars, roleVars>>

SpecExport == InitExport /\ [][NextExport]_vars


(***************************************************************************)
(* Properties of the todo list                                             *)
(***************************************************************************)
\* nothing is in flight: every request was answered, every response handled
\* and every change-feed event delivered
Quiescent == requests = {} /\ responses = {} /\ channel = <<>>

\* C1: once every call has completed (all store writes succeeded, every push
\* event was delivered), the view holds each record that was added and not
\* deleted exactly once, and no deleted record.
C1_ViewHoldsLiveRecordsOnce ==
    (Quiescent /\ failures = 0) =>
        \A id \in 1..(nextId - 1) :
            Count(todos, id) = IF id \in deleted THEN 0 ELSE 1

\* C2: when the store has applied the batch of a reorderTodos call, every
\* record of the submitted order has the position of its index in that order,
\* and no two records of the store share a position.
C2_ReorderLeavesDistinctPositions ==
    [][\A req \in requests :
          (req.op = "reorder" /\ requests' = requests \ {req}
                /\ responses' = responses) =>
             /\ \A i \in DOMAIN req.updates :
                   \E r \in db' : r.id = req.updates[i].id /\ r.position = i - 1
             /\ \A r, q \in db' : r.id # q.id => r.position # q.position]_vars

\* C9: the records of the view appear in ascending order of position.
C9_ViewAscendingByPosition ==
    Quiescent =>
        \A i, j \in DOMAIN todos : i < j => todos[i].position <= todos[j].position


\* the view's record for id (the first one, should there be several)
Shown(s, id) == s[FindIndex(s, id)]

C8_UnknownIdEventIsNoOp ==
    [][(channel # <<>> /\ channel' = Tail(channel)
          /\ Head(channel).eventType \in {"DELETE", "UPDATE"}
          /\ Head(channel).row.id \notin SeqIds(todos)) => todos' = todos]_vars

\* C8 witness: an UPDATE event for an id absent from the view was delivered
C8_Witness ==
    last.act = "push" /\ last.op = "UPDATE" /\ ~last.ok

KeepGap(r, q) ==
    \/ r.end_time <= q.start_time - TwoHours
    \/ r.start_time >= q.end_time + TwoHours

\* C3: in every store state reached through createAppointment and
\* updateAppointment calls, any two non-cancelled appointments of the same
\* owner have intervals at least two hours apart.
C3_TwoHourGapBetweenAppointments ==
    \A r, q \in appointmentsTable :
        (r.id # q.id /\ r.client_id = q.client_id
            /\ r.status # "cancelled" /\ q.status # "cancelled") => KeepGap(r, q)

\* C4: respectsTimeGap(start, end, excludeId), its query answered, returns true
\* exactly when every stored non-cancelled appointment other than excludeId
\* satisfies end <= existing_start - 2h or start >= existing_end + 2h.
C4_GapCheckMatchesRule ==
    (last.gap.checked /\ last.gap.queried) =>
        (last.gap.result <=>
            \A r \in appointmentsTable :
                (r.status # "cancelled" /\ r.id # last.gap.excludeAppointmentId) =>
                    \/ last.gap.endTime <= r.start_time - TwoHours
                    \/ last.gap.startTime >= r.end_time + TwoHours)

\* no non-cancelled appointment of the store starts on the day
FreeDay(day) ==
    \A r \in appointmentsTable :
        r.status # "cancelled" =>
            ~(r.start_time >= day /\ r.start_time < day + MinutesPerDay)

\* the slots 9:00-9:30, 9:30-10:00, ..., 16:30-17:00 of the day that start
\* strictly later than now
FutureSlots(day, now) ==
    {slot \in {[start |-> day + 9 * 60 + 30 * k, end |-> day + 9 * 60 + 30 * (k + 1)] :
                   k \in 0..15} : slot.start > now}

ReturnsExactly(slots, S) ==
    /\ {slots[i] : i \in DOMAIN slots} = S
    /\ Len(slots) = Cardinality(S)

\* C10 (as stated): for a day with no non-cancelled appointment in the store,
\* getAvailableTimeSlots returns exactly the 30-minute slots starting at 9:00,
\* 9:30, ..., 16:30 of that day whose start is strictly later than now.
C10_FreeDayReturnsFutureSlots ==
    (last.act = "getAvailableTimeSlots" /\ FreeDay(last.value.day)) =>
        ReturnsExactly(last.value.slots, FutureSlots(last.value.day, last.value.now))

\* C10 (amended): for a day with no non-cancelled appointment in the store,
\* getAvailableTimeSlots returns exactly those slots when its store query
\* succeeds; when the query fails it returns no slot and sets the hook's error.
C10_FreeDayReturnsFutureSlotsUnlessQueryFails ==
    (last.act = "getAvailableTimeSlots" /\ FreeDay(last.value.day)) =>
        /\ last.ok =>
              ReturnsExactly(last.value.slots,
                             FutureSlots(last.value.day, last.value.now))
        /\ ~last.ok =>
              /\ last.value.slots = <<>>
              /\ apptHook[last.session].error # "null"

\* C10 witness: the store holds a non-cancelled appointment, the day asked for
\* has none, part of the day has passed and the rest of its slots are returned
C10_Witness ==
    /\ last.act = "getAvailableTimeSlots" /\ last.ok
    /\ FreeDay(last.value.day)
    /\ \E r \in appointmentsTable : r.status # "cancelled"
    /\ Len(last.value.slots) \in 1..15

(***************************************************************************)
(* Properties of the export                                                *)
(***************************************************************************)
\* the header row: ID,Task,Status,Created At
HeaderRow == <<"ID", ",", "Task", ",", "Status", ",", "Created At">>

\* C11 (as stated): exporting when the view holds zero records produces a
\* download whose content is exactly the header row and nothing else.
C11_EmptyExportIsHeaderRow ==
    (last.act = "exportToExcel" /\ Len(last.view) = 0) =>
        (last.download.made /\ last.download.content = HeaderRow)

\* C11 (amended): exporting when the view holds zero records produces no
\* download; exporting a view of n > 0 records produces a download whose
\* content starts with the header row, followed by one line per record.
C11_EmptyExportMakesNoDownload ==
    last.act = "exportToExcel" =>
        /\ Len(last.view) = 0 => ~last.download.made
        /\ Len(last.view) > 0 =>
              /\ last.download.made
              /\ SubSeq(last.download.content, 1, Len(HeaderRow)) = HeaderRow
              /\ last.download.content[Len(HeaderRow) + 1] = "\n"

\* C11 witness: exportToExcel was called while the view held no record
C11_Witness ==
    last.act = "exportToExcel" /\ Len(last.view) = 0 /\ Len(todos) = 0

C17_ViewHoldsOnlyCurrentUsersRecords ==
    (userChanges > 0 /\ Quiescent) =>
        /\ \A i \in DOMAIN todos : todos[i].user_id = authUser
        /\ authUser = "null" => todos = <<>>

(***************************************************************************)
(* Properties of AuthProvider                                              *)
(***************************************************************************)
\* C13: when a user signs in and no role record exists for that user, the
\* session role becomes 'client' and a role record with role 'client' is
\* created for that user.
C13_MissingRoleDefaultsToClient ==
    (last.act = "fetchUserRole" /\ last.ok /\ last.rows = 0
        /\ authUser = last.userId) =>
            /\ sessionRole = "client"
            /\ Profile(last.userId, "client") \in userProfiles

(***************************************************************************)
(* Properties of the access to appointments                                *)
(***************************************************************************)
\* the rows of the store with the id of r after the step
After(r) == {q \in appointmentsTable' : q.id = r.id}

\* C14: an appointment's status is changed, or the appointment removed, only
\* by a step of an admin's call, except that a client's call may change the
\* status of the client's own pending appointment to 'cancelled'.
C14_OnlyAdminsChangeStatus ==
    [][\A r \in appointmentsTable :
          (After(r) = {} \/ \E q \in After(r) : q.status # r.status) =>
             \/ userRole(last'.session) = "admin"
             \/ /\ After(r) # {}
                /\ r.client_id = user(last'.session).id
                /\ r.status = "pending"
                /\ \A q \in After(r) : q.status = "cancelled"]_vars

ViewEqualsStore ==
    LET rows == {r \in db : r.user_id = authUser}
    IN  /\ SeqIds(todos) = {r.id : r \in rows}
        /\ \A r \in rows :
              /\ Count(todos, r.id) = 1
              /\ Shown(todos, r.id).text = r.text
              /\ Shown(todos, r.id).completed = r.completed

\* C16: when the reload issued by a failed write of toggleTodo, editTodo,
\* deleteTodo or reorderTodos has delivered its rows and nothing else is in
\* flight (every other request answered and handled, every push event
\* delivered), the view equals the store's records of the user.
C16_ReloadedViewEqualsStore ==
    (Quiescent /\ last.act = "resolve" /\ last.op = "select" /\ last.ok
        /\ last.cause \in WriteOps) => ViewEqualsStore


(***************************************************************************)
(* Properties of the offered time slots                                    *)
(***************************************************************************)
\* the slot keeps two hours to every non-cancelled appointment of the store
KeepsGapToAll(slot) ==
    \A r \in appointmentsTable :
        r.status # "cancelled" =>
            \/ slot.end <= r.start_time - TwoHours
            \/ slot.start >= r.end_time + TwoHours

\* C18: the slots getAvailableTimeSlots returns for a day (its store query
\* answered) are exactly the future slots of the 9:00-17:00 window that end at
\* least two hours before, or start at least two hours after, every
\* non-cancelled appointment of the store.
C18_SlotsKeepGapToEveryAppointment ==
    (last.act = "getAvailableTimeSlots" /\ last.ok) =>
        ReturnsExactly(last.value.slots,
                       {slot \in FutureSlots(last.value.day, last.value.now) :
                            KeepsGapToAll(slot)})


(***************************************************************************)
(* Properties of the optimistic updates                                    *)
(***************************************************************************)
Ids(s) == [i \in DOMAIN s |-> s[i].id]

\* the view shows what the request of a mutation asks the store for
Reflects(view, req) ==
    CASE req.op = "insert" ->
            \E i \in DOMAIN view :
                view[i].text = req.text /\ view[i].position = req.position
      [] req.op = "toggle" ->
            req.id \in SeqIds(view) /\ Shown(view, req.id).completed = req.completed
      [] req.op = "edit" ->
            req.id \in SeqIds(view) /\ Shown(view, req.id).text = req.text
      [] req.op = "delete" -> req.id \notin SeqIds(view)
      [] req.op = "reorder" ->
            LET common == SeqIds(view) \cap SeqIds(req.updates)
            IN  SelectSeq(Ids(view), LAMBDA x : x \in common)
                    = SelectSeq(Ids(req.updates), LAMBDA x : x \in common)
      [] OTHER -> TRUE

\* the step is a call of a mutation that issued req
Calls(req) == req \in requests' \ requests /\ last'.act = "call"

\* req is awaited before and after the step
Pending(req) == req \in InFlight /\ req \in InFlight'

\* C19 (as stated): the call of addTodo, editTodo, toggleTodo, deleteTodo or
\* reorderTodos leaves the view showing the mutation while its request is in
\* flight, and while the request is pending only a push event or a reload
\* takes the mutation out of the view again.
C19_EveryMutationShowsAtOnce ==
    [][/\ \A req \in requests' :
             (Calls(req) /\ req.op \in WriteOps \cup {"insert"}) =>
                 Reflects(todos', req)
       /\ \A req \in InFlight :
             (Pending(req) /\ req.op \in WriteOps /\ Reflects(todos, req)
                  /\ last'.act # "push"
                  /\ ~(last'.act = "resolve" /\ last'.op = "select")) =>
                 Reflects(todos', req)]_vars

\* C19 (amended): the call of editTodo, toggleTodo, deleteTodo or reorderTodos
\* leaves the view showing the mutation while its request is in flight; the
\* call of addTodo leaves the view as it was, the new record is shown when the
\* insert has resolved or its push event has arrived.  While requests are
\* pending the view is changed only by a further call, a push event, a reload
\* and the resolution of an insert, and the latter only puts the inserted
\* record in front.
C19_MutationsShowAtOnceExceptAdd ==
    [][/\ \A req \in requests' :
             /\ (Calls(req) /\ req.op \in WriteOps) => Reflects(todos', req)
             /\ (Calls(req) /\ req.op = "insert") => todos' = todos
       /\ (last'.act \in {"store", "status"}
              \/ (last'.act = "resolve" /\ last'.op \in WriteOps)) =>
             todos' = todos
       /\ (last'.act = "resolve" /\ last'.op = "insert") =>
             \/ todos' = todos
             \/ /\ Len(todos') = Len(todos) + 1
                /\ Tail(todos') = todos]_vars

\* C19 witness: a toggle is in flight, the store still holds the old flag and
\* the view shows the new one
C19_Witness ==
    \E req \in requests :
        /\ req.op = "toggle"
        /\ last.act = "call" /\ last.op = "toggle" /\ last.id = req.id
        /\ req.id \in DbIds /\ DbRow(req.id).completed # req.completed
        /\ Reflects(todos, req)


(***************************************************************************)
(* Properties of the drag events                                           *)
(***************************************************************************)
\* C20: a drag that ends over the dragged card itself, or over no card, issues
\* no store write and leaves the view and every stored record (so every stored
\* position) unchanged.
C20_DropOnSourceWritesNothing ==
    [][(last'.act \in {"call", "drag"} /\ trip'.stage = "drag"
           /\ (trip'.to = 0 \/ trip'.to = trip'.from)) =>
          /\ requests' = requests
          /\ responses' = responses
          /\ todos' = todos
          /\ db' = db]_vars

\* C20 witness: after a reorder whose write is still in flight, a card of the
\* view was dropped on itself
C20_Witness ==
    /\ last.act = "drag" /\ trip.stage = "drag"
    /\ trip.to = trip.from /\ trip.from \in SeqIds(todos)
    /\ \E req \in requests : req.op = "reorder"


(***************************************************************************)
(* Properties of the booking form                                          *)
(***************************************************************************)
\* C21: a submission that is rejected, because the chosen slot is not in the
\* list of available slots or because createAppointment refuses it for the
\* two-hour gap, makes the client fetch the available slots of the date again.
C21_RejectedSubmissionRefetchesSlots ==
    [][(calendar'.submissions > calendar.submissions
           /\ calendar'.outcome \in {"unavailable", "gap"}) =>
          calendar'.fetches > calendar.fetches]_vars


(***************************************************************************)
(* Properties of the typed texts                                           *)
(***************************************************************************)
Blank(raw) == \A i \in DOMAIN raw : raw[i] \in Whitespace

\* C22: submitting the add form, or saving the edit of a card, with a text
\* that is empty or consists of whitespace only issues no store request and
\* leaves the view and the store unchanged.
C22_BlankTextIsIgnored ==
    [][(last'.act \in {"call", "input"} /\ trip'.stage \in {"add", "edit"}
           /\ Blank(trip'.original)) =>
          /\ requests' = requests
          /\ responses' = responses
          /\ todos' = todos
          /\ db' = db]_vars

\* C22 witness: the edit of a shown card was saved with whitespace only and
\* the card still shows its text
C22_Witness ==
    /\ last.act = "input" /\ trip.stage = "edit"
    /\ trip.original # <<>> /\ Blank(trip.original)
    /\ trip.from \in SeqIds(todos)
    /\ Shown(todos, trip.from).text = "a"


(***************************************************************************)
(* Properties of the position of a new record                              *)
(***************************************************************************)
\* the records the store holds for the user of row
StoredFor(row) == {r \in db : r.user_id = row.user_id}

\* C23: the record an addTodo stores has position one more than the largest
\* position among the records the store holds for the user at that moment,
\* and 0 when it holds none.
C23_NewRecordGetsNextPosition ==
    [][\A new \in db' \ db :
          (last'.act = "store" /\ last'.op = "insert") =>
              new.position = IF StoredFor(new) = {} THEN 0
                             ELSE MaxOf({r.position : r \in StoredFor(new)}) + 1]_vars

\* C29: as long as records are only added, no two records of one user in the
\* store have the same position.
C29_AddedRecordsHaveDistinctPositions ==
    \A r, q \in db :
        (r.user_id = q.user_id /\ r.id # q.id) => r.position # q.position


(***************************************************************************)
(* Properties of the fallback of addTodo                                   *)
(***************************************************************************)
\* C24: no record identifier appears more than once in the view: of the
\* fallback insertion of addTodo and the push INSERT event of the same record
\* at most one is applied.
C24_NoIdentifierTwiceInView ==
    \A i, j \in DOMAIN todos : todos[i].id = todos[j].id => i = j


(***************************************************************************)
(* Properties of the batch written by reorderTodos                         *)
(***************************************************************************)
\* the step is the store applying the batch of a reorderTodos call
ReorderApplied == last'.act = "store" /\ last'.op = "reorder" /\ last'.ok

\* C25: when the store applies the batch of a reorderTodos call, every record
\* keeps the text and the completion flag it had in the store before.
C25_ReorderKeepsTextAndFlag ==
    [][ReorderApplied =>
          \A r \in db : \A q \in db' :
              q.id = r.id => (q.text = r.text /\ q.completed = r.completed)]_vars

\* C26: when the store applies the batch of a reorderTodos call, every record
\* of the store was in the store before.
C26_ReorderCreatesNoRecord ==
    [][ReorderApplied => {q.id : q \in db'} \subseteq DbIds]_vars


(***************************************************************************)
(* Properties of the session role                                          *)
(***************************************************************************)
\* C27: while no user is signed in the session role is null, and while a user
\* is signed in a session role that is set is the role the store holds for
\* that user.
C27_RoleBelongsToSignedInUser ==
    /\ authUser = "null" => sessionRole = "null"
    /\ (authUser # "null" /\ sessionRole # "null") =>
          \E p \in userProfiles : p.user_id = authUser /\ p.role = sessionRole


(***************************************************************************)
(* Properties of the two gap checks                                        *)
(***************************************************************************)
\* C28: over the same store, a future slot of the day is returned by
\* getAvailableTimeSlots exactly when respectsTimeGap, as createAppointment
\* calls it in the same session, accepts it; in particular every returned slot
\* is accepted.
C28_SlotsAgreeWithGapCheck ==
    (last.act = "getAvailableTimeSlots" /\ last.ok) =>
        \A slot \in FutureSlots(last.value.day, last.value.now) :
            (\E i \in DOMAIN last.value.slots : last.value.slots[i] = slot)
                <=> respectsTimeGap(Visible(last.session), slot.start, slot.end, 0, TRUE)


\* C30: the appointments list the hook holds for a signed-in user whose role
\* is not admin contains only appointments whose client_id is that user's id.
C30_ListHoldsOwnAppointmentsOnly ==
    (authUser # "null" /\ sessionRole # "admin") =>
        \A i \in DOMAIN apptHook["client"].appointments :
            apptHook["client"].appointments[i].client_id = authUser

====
